---- MODULE Spec2Model ----
(***************************************************************************)
(* The procedural world-generation engine of backend/aspects/worldgen:     *)
(* get_biome, the overworld and dungeon generators, check_landmark,        *)
(* generate_room_description and the generate_room pipeline, and the room  *)
(* materialisation of backend/aspects/land.py (Land._generate_room).       *)
(*                                                                         *)
(* Conventions.                                                            *)
(*  - Floats are counted in hundredths: 0.35 is 35, z * 0.3 is z * 30.     *)
(*  - A string the code slices, prefixes or formats is a sequence of       *)
(*    tokens: "eldritch_plains" is <<"eldritch_", "plains">>; the empty    *)
(*    string is <<>>.                                                      *)
(*  - Python's None is NoneStr for a string field and <<>> for a tuple or  *)
(*    object field (Some(v) is <<v>> for an object).                       *)
(*  - A dict whose iteration order is observable (blueprint.exits) is a    *)
(*    sequence of <<key, value>> pairs in iteration order.                 *)
(*  - md5 and the simplex noise are uninterpreted: the values they take at *)
(*    the tiles a call reads are chosen once, in Init, and kept in world.  *)
(*  - hash(str) is the process' salted string hash: chosen once, in Init.  *)
(***************************************************************************)
EXTENDS Integers, Sequences, FiniteSets, TLC

\* ------------------------------------------------------------------ bounds

\* At most this many directions are forced by a context: the neighbours that
\* carry has_exit_to_us, and came_from.
MaxForced == 2
\* At most this many generate_room calls are made on one context object.
MaxCalls == 2

\* ----------------------------------------------------------- Python helpers

NoneStr == "None"

\* Optional objects: None is <<>>, an object v is <<v>>.
NoneObj == <<>>
Some(v) == <<v>>
IsSome(o) == Len(o) > 0
The(o) == o[1]

Min(a, b) == IF a < b THEN a ELSE b
Max(a, b) == IF a > b THEN a ELSE b

\* The elements of a sequence.
Range(s) == {s[i] : i \in 1..Len(s)}

\* x in list
InSeq(x, s) == \E i \in 1..Len(s) : s[i] = x

\* list.pop(idx) leaves the list without its idx-th element (0-based idx).
RemoveAt(s, idx) == [i \in 1..(Len(s) - 1) |-> IF i < idx THEN s[i] ELSE s[i + 1]]

\* s[:n]
Take(s, n) == SubSeq(s, 1, Min(n, Len(s)))

\* name.startswith(prefix), on token sequences whose first token may be a prefix
StartsWith(name, prefix) == Len(name) > 0 /\ name[1] = prefix

\* The keys of an ordered dict, in iteration order, and as a set.
KeysSeq(d) == [i \in 1..Len(d) |-> d[i][1]]
Keys(d) == {d[i][1] : i \in 1..Len(d)}
\* d[k] for a key the dict holds
Lookup(d, k) == (CHOOSE i \in 1..Len(d) : d[i][1] = k)
ValueOf(d, k) == d[Lookup(d, k)][2]
\* dict == dict: the same keys with the same values, whatever the order
DictEq(a, b) == {a[i] : i \in 1..Len(a)} = {b[i] : i \in 1..Len(b)}

\* ------------------------------------------------------ directions, deltas

_CARDINALS == <<"north", "south", "east", "west">>
Directions == {"north", "south", "east", "west", "up", "down"}

_COORD_DELTAS ==
  [north |-> <<0, 1, 0>>, south |-> <<0, -1, 0>>,
   east |-> <<1, 0, 0>>, west |-> <<-1, 0, 0>>,
   up |-> <<0, 0, 1>>, down |-> <<0, 0, -1>>]

_OPPOSITE ==
  [north |-> "south", south |-> "north", east |-> "west",
   west |-> "east", up |-> "down", down |-> "up"]

\* The destination computed on the map plane only: the level is kept.
_dest_coords_flat(origin, direction) ==
  LET dl == _COORD_DELTAS[direction]
  IN  <<origin[1] + dl[1], origin[2] + dl[2], origin[3]>>

_dest_coords(origin, direction) ==
  LET dl == _COORD_DELTAS[direction]
  IN  <<origin[1] + dl[1], origin[2] + dl[2], origin[3] + dl[3]>>

\* ------------------------------------------------------------------- state

VARIABLES
  world,        \* what fixes the values md5 and the noise layers take at the tiles read
  strhash,      \* the process' hash(str) on the direction names
  coordinates,  \* the tile this behaviour generates
  context,      \* the caller's GenerationContext object (NoneObj before it is built)
  ctx_before,   \* the context as it was handed to the last generate_room call
  llm,          \* what the external writers did during the last call
  blueprint,    \* the RoomBlueprint the last generate_room call returned
  generator,    \* the generator object that call used
  calls,        \* generate_room calls made on the current context object
  pc,           \* "idle" | "ready" | "done"
  _GENERATORS,  \* the generator registry: name -> generator object
  heap,         \* the GenerationContext objects concurrent calls were handed
  threads,      \* the concurrent generate_room calls: locals and position
  probe         \* what a direct caller of one function holds: the calls it made,
                \* their arguments and results

vars == <<world, strhash, coordinates, context, ctx_before, llm, blueprint,
          generator, calls, pc, _GENERATORS, heap, threads, probe>>

\* ------------------------------------------------------------ the environment

\* The column of tiles the behaviours generate, and its levels.
HomeXY == <<5, 6>>
Levels == {-2, -1, 0, 1}
Tiles == {<<HomeXY[1], HomeXY[2], z>> : z \in Levels}

\* Raw samples of the four noise layers, in hundredths.
Sample(e, m, c, w) ==
  [elevation |-> e, moisture |-> m, civilization |-> c, weirdness |-> w]
NOISE ==
  [plains |-> Sample(0, 0, 0, 0),
   mountain |-> Sample(70, 0, 0, 40),
   ravine |-> Sample(-60, 0, 0, 70),
   settlement |-> Sample(0, 60, 50, 0),
   forest |-> Sample(0, 30, 0, 0),
   desert |-> Sample(0, -50, 0, 0)]
HomeNoise == {"plains", "mountain", "ravine", "settlement"}

\* md5 prefixes (below 2^31, the integers TLC has): 0 passes every seeded
\* chance and has every residue 0; 3936257 fails the chances; 2145378298
\* passes the surface chance from 0.4 on and the underground one.
SeedValues == {0, 3936257, 2145378298}

\* Two processes' string hashes of the direction names.
HashFns ==
  {[north |-> 1, south |-> 2, east |-> 3, west |-> 4, up |-> 5, down |-> 6],
   [north |-> -3, south |-> 12, east |-> 2, west |-> 9, up |-> 7, down |-> 0]}

\* What lies 3 and 5 tiles out in each cardinal direction: "home" for the
\* noise of the home column.
FarKeys == {"north", "south", "east", "west"} \X {3, 5}
FarViews ==
  [same |-> [k \in FarKeys |-> "home"],
   mixed |-> [k \in FarKeys |->
                IF k[1] = "north" THEN "mountain"
                ELSE IF k = <<"east", 5>> THEN "forest"
                ELSE IF k = <<"south", 3>> THEN "plains"
                ELSE IF k = <<"south", 5>> THEN "settlement"
                ELSE "home"],
   ringed |-> [k \in FarKeys |->
                IF k[2] = 5 THEN "home"
                ELSE IF k[1] = "north" THEN "mountain"
                ELSE IF k[1] = "south" THEN "forest"
                ELSE IF k[1] = "east" THEN "desert"
                ELSE "settlement"]]

\* The surroundings of the home column: the far view and the md5 prefix of
\* the far tiles, the landmark seeds near the column (by offset from it), and
\* the md5 prefixes of the two hints a tile can get (without and with the
\* caller's came_from_biome).
Bare ==
  [view |-> "same", far_seed |-> 0, landmarks |-> <<>>, hint_seed |-> <<0, 0>>]
Sceneries ==
  {Bare,
   [view |-> "mixed", far_seed |-> 0, landmarks |-> <<<<<<0, 0>>, 0>>>>,
    hint_seed |-> <<1, 2>>],
   [view |-> "ringed", far_seed |-> 1, landmarks |-> <<<<<<1, 1>>, 450>>>>,
    hint_seed |-> <<0, 1>>]}

\* A world: the noise and the md5 prefix of the home column, and its scenery.
\* Every noise and seed in the bare scenery; the other sceneries around plains
\* and around a mountain, with seed 0.
Worlds ==
  {w \in [home : HomeNoise, seed : SeedValues, scenery : Sceneries] :
     w.scenery = Bare \/ (w.seed = 0 /\ w.home \in {"plains", "mountain"})}

FarXY(key) ==
  <<HomeXY[1] + _COORD_DELTAS[key[1]][1] * key[2],
    HomeXY[2] + _COORD_DELTAS[key[1]][2] * key[2]>>

\* The samples of the home column: those of its named noise, or the raw ones
\* a world gives it.
HomeSample == IF "raw" \in DOMAIN world THEN world.raw ELSE NOISE[world.home]

\* The noise samples of the column at (x, y): the home column or a far one.
NoiseAt(x, y) ==
  IF <<x, y>> = HomeXY THEN HomeSample
  ELSE LET name == FarViews[world.scenery.view][CHOOSE k \in FarKeys : FarXY(k) = <<x, y>>]
       IN  IF name = "home" THEN HomeSample ELSE NOISE[name]

\* The landmark seeds the scenery fixes in the columns near the home column,
\* seen from level z: the tile of the column on that level, the seed, and the
\* offset the scenery gave (two parts: every level; three: that level alone).
LandmarkSeeds(z) ==
  LET lms == world.scenery.landmarks
  IN  {<<<<HomeXY[1] + lms[i][1][1], HomeXY[2] + lms[i][1][2], z>>, lms[i][2],
         lms[i][1]>> : i \in 1..Len(lms)}

\* ------------------------------------------------------------------ biome.py

\* One raw sample of a noise layer at (x, y): _noise2d at the layer's scale
\* and offset, uninterpreted.
_sample(layer, x, y) == NoiseAt(x, y)[layer]

_UNDERGROUND_BIOMES ==
  [z \in {-1, -2, -3} |->
     IF z = -1 THEN "shallow_cave"
     ELSE IF z = -2 THEN "underground_passage" ELSE "deep_cavern"]

\* A classifier that looks at the elevation before the civilization.
_classify_surface_terrain_first(elev, moist, civ, weird) ==
  IF elev > 60 THEN "mountain_peak"
  ELSE IF elev > 35 THEN
    IF moist > 20 THEN "misty_highlands" ELSE "rocky_hills"
  ELSE IF civ > 40 THEN
    IF civ > 70 THEN "road"
    ELSE IF elev > 30 THEN "hilltop_ruins"
    ELSE "settlement_outskirts"
  ELSE IF elev < -50 THEN
    IF moist > 30 THEN "lake_shore" ELSE "ravine"
  ELSE IF moist > 50 THEN
    IF elev < 0 THEN "swamp" ELSE "dense_forest"
  ELSE IF moist > 15 THEN "forest"
  ELSE IF moist > -20 THEN
    IF elev > 10 THEN "grassland" ELSE "plains"
  ELSE IF moist < -40 THEN "desert"
  ELSE "scrubland"

_classify_surface(elev, moist, civ, weird) ==
  IF civ > 40 THEN
    IF civ > 70 THEN "road"
    ELSE IF elev > 30 THEN "hilltop_ruins"
    ELSE "settlement_outskirts"
  ELSE IF elev > 60 THEN "mountain_peak"
  ELSE IF elev > 35 THEN
    IF moist > 20 THEN "misty_highlands" ELSE "rocky_hills"
  ELSE IF elev < -50 THEN
    IF moist > 30 THEN "lake_shore" ELSE "ravine"
  ELSE IF moist > 50 THEN
    IF elev < 0 THEN "swamp" ELSE "dense_forest"
  ELSE IF moist > 15 THEN "forest"
  ELSE IF moist > -20 THEN
    IF elev > 10 THEN "grassland" ELSE "plains"
  ELSE IF moist < -40 THEN "desert"
  ELSE "scrubland"

\* biome is one token; the result is the name with its prefix token, if any
_apply_weirdness(biome, weird) ==
  IF weird > 60 THEN <<"eldritch_", biome>>
  ELSE IF weird > 35 THEN <<"ancient_", biome>>
  ELSE <<biome>>

\* A classifier whose river overrides the crystals.
_classify_underground_river_last(z, moist, weird) ==
  LET base0 == IF z \in DOMAIN _UNDERGROUND_BIOMES THEN _UNDERGROUND_BIOMES[z]
               ELSE IF z < -3 THEN "deep_underground"
               ELSE "shallow_cave"
      base1 == IF weird > 50 THEN "crystal_cavern" ELSE base0
  IN  IF moist > 40 THEN "underground_river" ELSE base1

_classify_underground(z, moist, weird) ==
  LET base0 == IF z \in DOMAIN _UNDERGROUND_BIOMES THEN _UNDERGROUND_BIOMES[z]
               ELSE IF z < -3 THEN "deep_underground"
               ELSE "shallow_cave"
      base1 == IF moist > 40 THEN "underground_river" ELSE base0
  IN  IF weird > 50 THEN "crystal_cavern" ELSE base1

\* Sea level counted as underground.
_generator_for_biome_inclusive(biome, z) == IF z <= 0 THEN "dungeon" ELSE "overworld"

_generator_for_biome(biome, z) == IF z < 0 THEN "dungeon" ELSE "overworld"

get_biome(x, y, z) ==
  LET named(elev, moist, civ, weird, biome) ==
        [elevation |-> elev, moisture |-> moist, civilization |-> civ,
         weirdness |-> weird, biome_name |-> biome,
         generator_name |-> _generator_for_biome(biome, z)]
      classify(elev, moist, civ, weird) ==
        named(elev, moist, civ, weird,
              IF z < 0 THEN <<_classify_underground(z, moist, weird)>>
              ELSE _apply_weirdness(_classify_surface(elev, moist, civ, weird), weird))
  IN  classify(Min(100, Max(-100, _sample("elevation", x, y) + z * 30)),
               _sample("moisture", x, y), _sample("civilization", x, y),
               _sample("weirdness", x, y))

\* The loop every consumer of a biome name runs: drop one weirdness prefix.
StripPrefix(name) ==
  IF StartsWith(name, "eldritch_") \/ StartsWith(name, "ancient_") THEN Tail(name)
  ELSE name

\* -------------------------------------------------------------- overworld.py

EXIT_PROFILES ==
  [plains |-> [base_exits |-> 4, up_down_chance |-> 0],
   grassland |-> [base_exits |-> 4, up_down_chance |-> 0],
   road |-> [base_exits |-> 2, up_down_chance |-> 0],
   settlement_outskirts |-> [base_exits |-> 3, up_down_chance |-> 0],
   forest |-> [base_exits |-> 3, up_down_chance |-> 0],
   dense_forest |-> [base_exits |-> 2, up_down_chance |-> 0],
   rocky_hills |-> [base_exits |-> 3, up_down_chance |-> 30],
   misty_highlands |-> [base_exits |-> 3, up_down_chance |-> 20],
   mountain_peak |-> [base_exits |-> 2, up_down_chance |-> 50],
   hilltop_ruins |-> [base_exits |-> 3, up_down_chance |-> 30],
   swamp |-> [base_exits |-> 3, up_down_chance |-> 10],
   lake_shore |-> [base_exits |-> 3, up_down_chance |-> 0],
   desert |-> [base_exits |-> 3, up_down_chance |-> 0],
   scrubland |-> [base_exits |-> 3, up_down_chance |-> 0],
   ravine |-> [base_exits |-> 2, up_down_chance |-> 40]]

_DEFAULT_PROFILE == [base_exits |-> 3, up_down_chance |-> 10]

\* Each catalog entry is known by its name; the names are unique across the catalogs.
TERRAIN_CATALOG ==
  [plains |-> <<"a patch of tall grass", "a weathered boulder", "a wildflower meadow">>,
   grassland |-> <<"a low stone wall", "a gentle hill">>,
   forest |-> <<"a tall oak tree", "a mossy log", "a cluster of ferns", "a birch stand">>,
   dense_forest |-> <<"a massive ancient tree", "a tangle of roots", "a dark thicket">>,
   swamp |-> <<"a murky pool", "a dead tree", "a patch of reeds">>,
   rocky_hills |-> <<"a rocky outcrop", "a scree slope">>,
   mountain_peak |-> <<"a wind-carved pinnacle", "a snow patch">>,
   desert |-> <<"a sand dune", "a sun-bleached skull", "a thorny cactus">>,
   scrubland |-> <<"a dry bush", "a cracked stone slab">>,
   lake_shore |-> <<"a stretch of pebbled beach", "a small wooden jetty">>,
   road |-> <<"a worn milestone", "a cart rut">>,
   settlement_outskirts |-> <<"a wooden fence post", "a small vegetable patch">>,
   hilltop_ruins |-> <<"a crumbling wall segment", "a broken column">>,
   ravine |-> <<"a narrow ledge", "a trickle of water">>,
   misty_highlands |-> <<"a heather-covered slope", "a cairn of stacked stones">>]

BIOME_SCALES ==
  [plains |-> "vast",
   grassland |-> "wide",
   desert |-> "vast",
   forest |-> "room",
   dense_forest |-> "cramped",
   swamp |-> "room",
   rocky_hills |-> "wide",
   mountain_peak |-> "room",
   road |-> "wide",
   settlement_outskirts |-> "wide",
   lake_shore |-> "wide",
   ravine |-> "cramped",
   hilltop_ruins |-> "room",
   misty_highlands |-> "wide",
   scrubland |-> "wide"]

BIOME_TAGS ==
  [plains |-> <<"open", "windy", "grass">>,
   grassland |-> <<"open", "gentle", "grass">>,
   forest |-> <<"wooded", "shaded", "birdsong">>,
   dense_forest |-> <<"dark", "overgrown", "damp", "quiet">>,
   swamp |-> <<"wet", "murky", "insects", "stench">>,
   rocky_hills |-> <<"exposed", "rocky", "windy">>,
   mountain_peak |-> <<"cold", "windy", "exposed", "high">>,
   desert |-> <<"hot", "dry", "sand", "glare">>,
   scrubland |-> <<"dry", "dusty", "sparse">>,
   lake_shore |-> <<"water", "breeze", "pebbles">>,
   road |-> <<"dusty", "flat", "worn">>,
   settlement_outskirts |-> <<"civilization", "fences", "smoke">>,
   hilltop_ruins |-> <<"ancient", "crumbling", "overgrown">>,
   ravine |-> <<"narrow", "echoing", "damp", "shadowed">>,
   misty_highlands |-> <<"misty", "heather", "windy", "damp">>]

\* template.format(dir=d) is <<template, d>>
_DISTANT_TEMPLATES ==
  [mountain_peak |-> <<"Mountains rise to the {dir}, their peaks lost in cloud.", "Jagged peaks loom on the {dir}ern horizon.">>,
   rocky_hills |-> <<"Rolling hills stretch away to the {dir}.">>,
   forest |-> <<"A dark tree line marks the {dir}ern horizon.", "Forest canopy spreads to the {dir}.">>,
   dense_forest |-> <<"Dense woodland crowds the view to the {dir}.">>,
   lake_shore |-> <<"Sunlight glints off water to the {dir}.">>,
   swamp |-> <<"Mist hangs low over marshland to the {dir}.">>,
   desert |-> <<"Sand stretches endlessly to the {dir}.">>,
   settlement_outskirts |-> <<"Smoke curls from somewhere to the {dir}.", "A few rooftops are visible to the {dir}.">>,
   road |-> <<"A road stretches into the distance to the {dir}.">>,
   hilltop_ruins |-> <<"Ruined walls stand on a hill to the {dir}.">>]

\* table.get(name, default) for a table keyed by one-token names
DictGet(table, name, default) ==
  IF Len(name) = 1 /\ name[1] \in DOMAIN table THEN table[name[1]] ELSE default

\* A seed drawn from a generator state that advances with every call.
_coord_seed_advancing(x, y, z) ==
  IF <<x, y>> = HomeXY THEN world.seed + calls ELSE world.scenery.far_seed

\* md5 of "x,y,z", first 8 hex digits: uninterpreted, 32 bits
_coord_seed(x, y, z) ==
  IF <<x, y>> = HomeXY THEN world.seed ELSE world.scenery.far_seed

_seeded_choice(seed, items, index) ==
  IF Len(items) = 0 THEN NoneStr
  ELSE items[((seed + index * 7919) % Len(items)) + 1]

RECURSIVE SampleLoop_replacing(_, _, _, _, _)
\* A loop that picks at the seed's own index and leaves the item in the list.
SampleLoop_replacing(seed, remaining, result, i, k) ==
  IF i >= k THEN result
  ELSE LET idx == seed % Len(remaining)
       IN  SampleLoop_replacing(seed, remaining, Append(result, remaining[idx + 1]),
                                i + 1, k)

RECURSIVE SampleLoop(_, _, _, _, _)
\* the loop of _seeded_sample from iteration i on
SampleLoop(seed, remaining, result, i, k) ==
  IF i >= k THEN result
  ELSE LET idx == (seed + i * 6311) % Len(remaining)
       IN  SampleLoop(seed, RemoveAt(remaining, idx + 1),
                      Append(result, remaining[idx + 1]), i + 1, k)

_seeded_sample(seed, items, k) ==
  IF k >= Len(items) THEN items
  ELSE SampleLoop(seed, items, <<>>, 0, k)

\* list.sort(key=...): ascending by key, equal keys keep their order; key is
\* the function from the elements to their keys
SortByKey(s, key) ==
  LET k == [i \in 1..Len(s) |-> key[s[i]]]
      rank == [i \in 1..Len(s) |->
                 Cardinality({j \in 1..Len(s) : k[j] < k[i] \/ (k[j] = k[i] /\ j < i)})]
  IN  [p \in 1..Len(s) |-> s[CHOOSE i \in 1..Len(s) : rank[i] = p - 1]]

\* [x for x in s if x not in excluded]
Without(s, excluded) == SelectSeq(s, LAMBDA x : x \notin excluded)

\* The order in which a set of direction names is iterated: by the slot the
\* process' string hash puts each name in (the model's hashes differ mod 8).
SetOrder(S, h) ==
  LET all == SortByKey(<<"north", "south", "east", "west", "up", "down">>,
                       [d \in Directions |-> h[d] % 8])
  IN  SelectSeq(all, LAMBDA d : d \in S)

\* Reciprocity honoured for the compass directions only.
ForcedByNeighbors_cardinal(ctx) ==
  {ctx.neighbors[i][1] : i \in {j \in 1..Len(ctx.neighbors) :
                                  /\ ctx.neighbors[j][2].has_exit_to_us
                                  /\ InSeq(ctx.neighbors[j][1], _CARDINALS)}}

\* The directions a context forces by reciprocity: for direction, info in
\* context.neighbors.items(): if info.get("has_exit_to_us")
ForcedByNeighbors(ctx) ==
  {ctx.neighbors[i][1] : i \in {j \in 1..Len(ctx.neighbors) :
                                  ctx.neighbors[j][2].has_exit_to_us}}

\* The way back looked for on the far side: the direction whose opposite
\* leads to came_from.
ForcedByCameFrom_opposite(coords, ctx, dirs) ==
  IF Len(ctx.came_from) = 0 THEN {}
  ELSE LET hits == {i \in 1..Len(dirs) :
                      _dest_coords(coords, _OPPOSITE[dirs[i]]) = ctx.came_from}
       IN  IF hits = {} THEN {}
           ELSE {dirs[CHOOSE i \in hits : \A j \in hits : i <= j]}

\* for d in dirs: if _dest_coords(coords, d) == context.came_from: add d; break
ForcedByCameFrom(coords, ctx, dirs) ==
  IF Len(ctx.came_from) = 0 THEN {}
  ELSE LET hits == {i \in 1..Len(dirs) : _dest_coords(coords, dirs[i]) = ctx.came_from}
       IN  IF hits = {} THEN {}
           ELSE {dirs[CHOOSE i \in hits : \A j \in hits : i <= j]}

\* A fill that stops one exit short of the target.
FillQuota_short(selected, remaining, target) ==
  selected \cup Range(Take(remaining, Max(0, target - 1 - Cardinality(selected))))

\* for d in remaining: if len(selected) >= target: break; selected.add(d)
FillQuota(selected, remaining, target) ==
  selected \cup Range(Take(remaining, Max(0, target - Cardinality(selected))))

\* OverworldGenerator._generate_exits, with the string hash h made explicit
OverworldExits(coords, biome, seed, ctx, h) ==
  LET profile == DictGet(EXIT_PROFILES, biome, _DEFAULT_PROFILE)
      base_count == profile.base_exits
      forced == ForcedByNeighbors(ctx) \cup ForcedByCameFrom(coords, ctx, _CARDINALS)
      remaining == Without(_CARDINALS, forced)
      filled == IF Cardinality(forced) < base_count /\ Len(remaining) > 0
                THEN FillQuota(forced,
                               SortByKey(remaining,
                                         [d \in Directions |-> (seed + h[d]) % 1000]),
                               base_count)
                ELSE forced
      up_down_chance == profile.up_down_chance
      selected == IF up_down_chance > 0 /\ ((seed \div 65536) % 100) < up_down_chance
                  THEN IF IsSome(ctx.biome_data) /\ The(ctx.biome_data).elevation > 30
                       THEN filled \cup {"up"}
                       ELSE filled \cup {"down"}
                  ELSE filled
      order == SetOrder(selected, h)
  IN  [i \in 1..Len(order) |-> <<order[i], _dest_coords(coords, order[i])>>]

_generate_exits(coords, biome, seed, ctx) ==
  OverworldExits(coords, biome, seed, ctx, strhash)

_generate_terrain(biome, seed) ==
  LET catalog == DictGet(TERRAIN_CATALOG, biome, <<>>)
  IN  IF Len(catalog) = 0 THEN <<>>
      ELSE _seeded_sample(seed, catalog, Min(1 + (seed % 3), Len(catalog)))

\* far_biome.biome_name without its weirdness prefix, distance tiles out
FarName(coords, direction, distance) ==
  StripPrefix(get_biome(coords[1] + _COORD_DELTAS[direction][1] * distance,
                        coords[2] + _COORD_DELTAS[direction][2] * distance,
                        coords[3]).biome_name)

\* The feature the far tile at one distance gives: <<>> when it gives none.
FeatureAt(coords, direction, distance, far_name, current_biome) ==
  IF far_name # current_biome /\ Len(far_name) = 1 /\ far_name[1] \in DOMAIN _DISTANT_TEMPLATES
  THEN <<_seeded_choice(_coord_seed(coords[1] + _COORD_DELTAS[direction][1] * distance,
                                    coords[2] + _COORD_DELTAS[direction][2] * distance,
                                    coords[3]),
                        _DISTANT_TEMPLATES[far_name[1]], 0),
         direction>>
  ELSE <<>>

\* for distance in (3, 5): ... break at the first distance that gives a feature
FirstFeature(near, far) == IF Len(near) > 0 THEN near ELSE far

\* The feature one open exit contributes: <<>> for up, down and when neither
\* far tile gives one.
FeatureOf(coords, direction, current_biome) ==
  IF direction \in {"up", "down"} THEN <<>>
  ELSE FirstFeature(
         FeatureAt(coords, direction, 3, FarName(coords, direction, 3), current_biome),
         FeatureAt(coords, direction, 5, FarName(coords, direction, 5), current_biome))

\* if feature not in features: features.append(feature)
AddFeature(features, f) ==
  IF Len(f) > 0 /\ ~InSeq(f, features) THEN Append(features, f) ELSE features

RECURSIVE DistantLoop_uncapped(_, _, _, _, _)
\* A loop that goes on past the third feature.
DistantLoop_uncapped(coords, exits, current_biome, i, features) ==
  IF i > Len(exits) THEN features
  ELSE DistantLoop_uncapped(coords, exits, current_biome, i + 1,
                            AddFeature(features, FeatureOf(coords, exits[i][1], current_biome)))

RECURSIVE DistantLoop(_, _, _, _, _)
\* the loop of _generate_distant_features over the exits from the i-th on
DistantLoop(coords, exits, current_biome, i, features) ==
  IF i > Len(exits) \/ Len(features) >= 3 THEN features
  ELSE DistantLoop(coords, exits, current_biome, i + 1,
                   AddFeature(features, FeatureOf(coords, exits[i][1], current_biome)))

_generate_distant_features(coords, exits, current_biome) ==
  DistantLoop(coords, exits, current_biome, 1, <<>>)

\* ", ".join(parts) and the like: the parts with the separator between them
RECURSIVE Join(_, _)
Join(sep, parts) ==
  IF Len(parts) = 0 THEN <<>>
  ELSE IF Len(parts) = 1 THEN <<parts[1]>>
  ELSE <<parts[1], sep>> \o Join(sep, Tail(parts))

\* OverworldGenerator.generate from the point where biome = context.biome_data
\* has been read: biome_data is what that read gave
OverworldGenerateWith(coords, biome_data, ctx) ==
  LET biome == The(biome_data)
      base_biome == biome.biome_name
      lookup_biome == StripPrefix(base_biome)
      seed == _coord_seed(coords[1], coords[2], coords[3])
      exits == _generate_exits(coords, lookup_biome, seed, ctx)
      terrain == _generate_terrain(lookup_biome, seed)
      scale == DictGet(BIOME_SCALES, lookup_biome, "room")
      tags0 == DictGet(BIOME_TAGS, lookup_biome, <<"unknown">>)
      tags1 == IF biome.weirdness > 35 THEN Append(tags0, "ancient") ELSE tags0
      tags == IF biome.weirdness > 60 THEN Append(tags1, "eldritch") ELSE tags1
      distant == _generate_distant_features(coords, exits, lookup_biome)
      hint == lookup_biome
              \o (IF Len(ctx.came_from_biome) > 0
                  THEN <<"; ", "arrived from ">> \o ctx.came_from_biome ELSE <<>>)
              \o (IF Len(tags) > 0
                  THEN <<"; ", "feels ">> \o Join(", ", Take(tags, 3)) ELSE <<>>)
  IN  [exits |-> exits, biome |-> base_biome, terrain |-> terrain,
       description_hint |-> hint, description |-> <<>>, scale |-> scale,
       tags |-> tags, distant_features |-> distant, landmark |-> NoneStr]

\* OverworldGenerator.generate
OverworldGenerate(coords, ctx) == OverworldGenerateWith(coords, ctx.biome_data, ctx)

\* ---------------------------------------------------------------- dungeon.py

_CAVE_TERRAIN == <<"a stalagmite", "a dripping ceiling", "a pile of loose rubble", "a patch of cave moss", "a narrow crack in the wall">>

\* md5 of "dungeon:x,y,z", first 8 hex digits: uninterpreted, 32 bits
dungeon_coord_seed(x, y, z) ==
  IF <<x, y>> = HomeXY THEN world.seed ELSE world.scenery.far_seed

\* Cave exits with the chance of a way down on every level below the surface.
DungeonExits_shallow(coords, seed, ctx, h) ==
  LET forced == ForcedByNeighbors(ctx)
                \cup ForcedByCameFrom(coords, ctx, _CARDINALS \o <<"up", "down">>)
      remaining == SortByKey(Without(_CARDINALS, forced),
                             [d \in Directions |-> (seed + h[d]) % 1000])
      filled == FillQuota(forced, remaining, 2 + (seed % 2))
      chance == ((seed \div 4096) % 3 = 0)
      selected == filled
                  \cup (IF chance /\ coords[3] < 0 THEN {"down", "up"} ELSE {})
      order == SetOrder(selected, h)
  IN  [i \in 1..Len(order) |-> <<order[i], _dest_coords(coords, order[i])>>]

\* DungeonGenerator._generate_exits, with the string hash h made explicit
DungeonExits(coords, seed, ctx, h) ==
  LET forced == ForcedByNeighbors(ctx)
                \cup ForcedByCameFrom(coords, ctx, _CARDINALS \o <<"up", "down">>)
      remaining == SortByKey(Without(_CARDINALS, forced),
                             [d \in Directions |-> (seed + h[d]) % 1000])
      target == 2 + (seed % 2)
      filled == FillQuota(forced, remaining, target)
      chance == ((seed \div 4096) % 3 = 0)
      selected == filled
                  \cup (IF chance /\ coords[3] < -1 THEN {"down"} ELSE {})
                  \cup (IF chance /\ coords[3] < 0 THEN {"up"} ELSE {})
      order == SetOrder(selected, h)
  IN  [i \in 1..Len(order) |-> <<order[i], _dest_coords(coords, order[i])>>]

dungeon_generate_exits(coords, seed, ctx) == DungeonExits(coords, seed, ctx, strhash)

\* DungeonGenerator.generate from the point where context.biome_data has been
\* read: biome_data is what that read gave
DungeonGenerateWith(coords, biome_data, ctx) ==
  LET seed == dungeon_coord_seed(coords[1], coords[2], coords[3])
      biome == IF IsSome(biome_data) THEN The(biome_data).biome_name
               ELSE <<"shallow_cave">>
      exits == dungeon_generate_exits(coords, seed, ctx)
      count == 1 + (seed % 2)
      terrain == SampleLoop(seed, _CAVE_TERRAIN, <<>>, 0, Min(count, Len(_CAVE_TERRAIN)))
      tags == <<"underground", "dark", "damp", "echoing">>
              \o (IF biome = <<"crystal_cavern">> THEN <<"glowing", "mystical">> ELSE <<>>)
              \o (IF biome = <<"underground_river">> THEN <<"water", "rushing">> ELSE <<>>)
      hint == biome
              \o (IF Len(ctx.came_from_biome) > 0
                  THEN <<"; ", "descended from ">> \o ctx.came_from_biome ELSE <<>>)
  IN  [exits |-> exits, biome |-> biome, terrain |-> terrain,
       description_hint |-> hint, description |-> <<>>,
       scale |-> IF seed % 3 # 0 THEN "cramped" ELSE "room",
       tags |-> tags, distant_features |-> <<>>, landmark |-> NoneStr]

\* DungeonGenerator.generate
DungeonGenerate(coords, ctx) == DungeonGenerateWith(coords, ctx.biome_data, ctx)

\* -------------------------------------------------------------- landmarks.py

LANDMARK_RARITY == 150
MAX_LANDMARK_RADIUS == 5

LANDMARK_CATALOG ==
  <<[name |-> "a crumbling watchtower", type |-> "ruin", radius |-> 3,
     biome_override |-> <<"hilltop_ruins">>,
     description_modifier |-> "near the ruins of an old watchtower",
     terrain |-> <<"a pile of ancient bricks">>],
    [name |-> "a crystal spring", type |-> "nature", radius |-> 2,
     biome_override |-> NoneObj,
     description_modifier |-> "near a spring of clear, sparkling water",
     terrain |-> <<"a crystal-clear pool">>],
    [name |-> "a traders' camp", type |-> "settlement", radius |-> 4,
     biome_override |-> <<"settlement_outskirts">>,
     description_modifier |-> "near a well-used traders' camp",
     terrain |-> <<"a fire pit">>],
    [name |-> "an ancient standing stone", type |-> "mystical", radius |-> 2,
     biome_override |-> NoneObj,
     description_modifier |-> "in the shadow of a towering standing stone",
     terrain |-> <<"a monolith of dark stone">>],
    [name |-> "a collapsed mine entrance", type |-> "danger", radius |-> 3,
     biome_override |-> NoneObj,
     description_modifier |-> "near the gaping mouth of an old mine",
     terrain |-> <<"a rotting mine cart">>],
    [name |-> "a forgotten shrine", type |-> "mystical", radius |-> 2,
     biome_override |-> NoneObj,
     description_modifier |-> "near the remains of a small roadside shrine",
     terrain |-> <<"a worn stone altar">>],
    [name |-> "a great hollow tree", type |-> "nature", radius |-> 2,
     biome_override |-> NoneObj,
     description_modifier |-> "beside a massive hollow tree",
     terrain |-> <<"a cavernous tree trunk">>],
    [name |-> "a stone bridge", type |-> "ruin", radius |-> 2,
     biome_override |-> NoneObj,
     description_modifier |-> "near an old stone bridge spanning a dry channel",
     terrain |-> <<"a moss-covered bridge">>]>>

\* md5 of "landmark:x,y,z", first 8 hex digits: uninterpreted, 32 bits.  The
\* scenery fixes the seeds of a few tiles near the home column; every other
\* tile has a seed that is no multiple of LANDMARK_RARITY.
_landmark_seed(x, y, z) ==
  LET fixed == {p \in LandmarkSeeds(z) :
                  p[1] = <<x, y, z>> /\ (Len(p[3]) = 3 => p[3][3] = z)}
  IN  IF fixed = {} THEN 1 ELSE (CHOOSE p \in fixed : TRUE)[2]

_is_landmark_center(x, y, z) == _landmark_seed(x, y, z) % LANDMARK_RARITY = 0

_landmark_at(x, y, z) ==
  IF ~_is_landmark_center(x, y, z) THEN NoneObj
  ELSE LET seed == _landmark_seed(x, y, z)
           entry == LANDMARK_CATALOG[(seed % Len(LANDMARK_CATALOG)) + 1]
       IN  Some([name |-> entry.name, landmark_type |-> entry.type,
                 center |-> <<x, y, z>>, radius |-> entry.radius,
                 description_modifier |-> entry.description_modifier,
                 terrain_additions |-> entry.terrain,
                 biome_override |-> entry.biome_override])

Abs(n) == IF n < 0 THEN -n ELSE n

\* The scan with every landmark taken to reach MAX_LANDMARK_RADIUS tiles.
check_landmark_widest(x, y, z) ==
  LET direct == _landmark_at(x, y, z)
      R == MAX_LANDMARK_RADIUS
      dist(o) == Abs(o[1]) + Abs(o[2])
      reach == {o \in (-R..R) \X (-R..R) :
                  /\ o # <<0, 0>>
                  /\ dist(o) <= R
                  /\ _is_landmark_center(x + o[1], y + o[2], z)}
      before(a, b) == a[1] < b[1] \/ (a[1] = b[1] /\ a[2] <= b[2])
      best == CHOOSE o \in reach :
                \A q \in reach : dist(o) < dist(q) \/ (dist(o) = dist(q) /\ before(o, q))
  IN  IF IsSome(direct) THEN direct
      ELSE IF reach = {} THEN NoneObj
      ELSE _landmark_at(x + best[1], y + best[2], z)

\* The scan with a center replacing the best so far when it is as close.
check_landmark_latest(x, y, z) ==
  LET R == MAX_LANDMARK_RADIUS
      dist(o) == Abs(o[1]) + Abs(o[2])
      before(a, b) == a[1] > b[1] \/ (a[1] = b[1] /\ a[2] >= b[2])
      at(o) == _landmark_at(x + o[1], y + o[2], z)
      nearest(reach) ==
        IF reach = {} THEN NoneObj
        ELSE at(CHOOSE o \in reach :
                  \A q \in reach : dist(o) < dist(q) \/ (dist(o) = dist(q) /\ before(o, q)))
      covers(o, lm) == IsSome(lm) /\ dist(o) <= The(lm).radius
      scan(direct) ==
        IF IsSome(direct) THEN direct
        ELSE nearest({o \in (-R..R) \X (-R..R) :
                        o # <<0, 0>> /\ dist(o) <= R /\ covers(o, at(o))})
  IN  scan(at(<<0, 0>>))

\* The scan of check_landmark: dx ascending, dy ascending within dx; a center
\* replaces the best so far only when strictly closer.
check_landmark(x, y, z) ==
  LET R == MAX_LANDMARK_RADIUS
      dist(o) == Abs(o[1]) + Abs(o[2])
      before(a, b) == a[1] < b[1] \/ (a[1] = b[1] /\ a[2] <= b[2])
      at(o) == _landmark_at(x + o[1], y + o[2], z)
      nearest(reach) ==
        IF reach = {} THEN NoneObj
        ELSE at(CHOOSE o \in reach :
                  \A q \in reach : dist(o) < dist(q) \/ (dist(o) = dist(q) /\ before(o, q)))
      covers(o, lm) == IsSome(lm) /\ dist(o) <= The(lm).radius
      scan(direct) ==
        IF IsSome(direct) THEN direct
        ELSE nearest({o \in (-R..R) \X (-R..R) :
                        o # <<0, 0>> /\ dist(o) <= R /\ covers(o, at(o))})
  IN  scan(at(<<0, 0>>))

\* --------------------------------------------------------------- describe.py

\* A template is known by <biome>#<index> and by the placeholders it holds, in order.
_TEMPLATES ==
  [plains |-> <<[id |-> "plains#0", slots |-> <<"scale", "terrain_ref">>],
      [id |-> "plains#1", slots |-> <<"scale", "terrain_ref", "distant_ref">>],
      [id |-> "plains#2", slots |-> <<"scale", "terrain_ref">>]>>,
   grassland |-> <<[id |-> "grassland#0", slots |-> <<"scale", "terrain_ref">>],
      [id |-> "grassland#1", slots |-> <<"scale", "terrain_ref", "distant_ref">>]>>,
   forest |-> <<[id |-> "forest#0", slots |-> <<"scale", "terrain_ref">>],
      [id |-> "forest#1", slots |-> <<"scale", "terrain_ref">>],
      [id |-> "forest#2", slots |-> <<"scale", "terrain_ref", "distant_ref">>]>>,
   dense_forest |-> <<[id |-> "dense_forest#0", slots |-> <<"terrain_ref">>],
      [id |-> "dense_forest#1", slots |-> <<"scale", "terrain_ref">>],
      [id |-> "dense_forest#2", slots |-> <<"terrain_ref">>]>>,
   swamp |-> <<[id |-> "swamp#0", slots |-> <<"scale", "terrain_ref">>],
      [id |-> "swamp#1", slots |-> <<"terrain_ref">>],
      [id |-> "swamp#2", slots |-> <<"scale", "terrain_ref">>]>>,
   rocky_hills |-> <<[id |-> "rocky_hills#0", slots |-> <<"scale", "terrain_ref", "distant_ref">>],
      [id |-> "rocky_hills#1", slots |-> <<"terrain_ref">>]>>,
   mountain_peak |-> <<[id |-> "mountain_peak#0", slots |-> <<"scale", "terrain_ref", "distant_ref">>],
      [id |-> "mountain_peak#1", slots |-> <<"scale", "terrain_ref">>]>>,
   desert |-> <<[id |-> "desert#0", slots |-> <<"scale", "terrain_ref">>],
      [id |-> "desert#1", slots |-> <<"scale", "terrain_ref", "distant_ref">>]>>,
   scrubland |-> <<[id |-> "scrubland#0", slots |-> <<"scale", "terrain_ref">>],
      [id |-> "scrubland#1", slots |-> <<"scale", "terrain_ref", "distant_ref">>]>>,
   lake_shore |-> <<[id |-> "lake_shore#0", slots |-> <<"scale", "terrain_ref">>],
      [id |-> "lake_shore#1", slots |-> <<"scale", "terrain_ref", "distant_ref">>]>>,
   road |-> <<[id |-> "road#0", slots |-> <<"scale", "terrain_ref", "distant_ref">>],
      [id |-> "road#1", slots |-> <<"scale", "terrain_ref">>]>>,
   settlement_outskirts |-> <<[id |-> "settlement_outskirts#0", slots |-> <<"scale", "terrain_ref", "distant_ref">>],
      [id |-> "settlement_outskirts#1", slots |-> <<"scale", "terrain_ref">>]>>,
   hilltop_ruins |-> <<[id |-> "hilltop_ruins#0", slots |-> <<"scale", "terrain_ref">>],
      [id |-> "hilltop_ruins#1", slots |-> <<"scale", "terrain_ref", "distant_ref">>]>>,
   ravine |-> <<[id |-> "ravine#0", slots |-> <<"scale", "terrain_ref">>],
      [id |-> "ravine#1", slots |-> <<"scale", "terrain_ref">>]>>,
   misty_highlands |-> <<[id |-> "misty_highlands#0", slots |-> <<"scale", "terrain_ref", "distant_ref">>],
      [id |-> "misty_highlands#1", slots |-> <<"scale", "terrain_ref">>]>>,
   shallow_cave |-> <<[id |-> "shallow_cave#0", slots |-> <<"scale", "terrain_ref">>],
      [id |-> "shallow_cave#1", slots |-> <<"scale", "terrain_ref">>]>>,
   underground_passage |-> <<[id |-> "underground_passage#0", slots |-> <<"scale", "terrain_ref">>],
      [id |-> "underground_passage#1", slots |-> <<"scale", "terrain_ref">>]>>,
   deep_cavern |-> <<[id |-> "deep_cavern#0", slots |-> <<"scale", "terrain_ref">>],
      [id |-> "deep_cavern#1", slots |-> <<"scale", "terrain_ref">>]>>,
   underground_river |-> <<[id |-> "underground_river#0", slots |-> <<"scale", "terrain_ref">>],
      [id |-> "underground_river#1", slots |-> <<"scale", "terrain_ref">>]>>,
   crystal_cavern |-> <<[id |-> "crystal_cavern#0", slots |-> <<"scale", "terrain_ref">>],
      [id |-> "crystal_cavern#1", slots |-> <<"scale", "terrain_ref">>]>>,
   deep_underground |-> <<[id |-> "deep_underground#0", slots |-> <<"scale", "terrain_ref">>],
      [id |-> "deep_underground#1", slots |-> <<"scale", "terrain_ref">>]>>]

_DEFAULT_TEMPLATES ==
  <<[id |-> "default#0", slots |-> <<"scale", "terrain_ref">>],
    [id |-> "default#1", slots |-> <<"scale", "terrain_ref", "distant_ref">>]>>

\* md5 of the description hint, first 8 hex digits: uninterpreted.  For one
\* tile the hint varies only with the caller's came_from_biome: the scenery
\* fixes the value for the hint without it and for the hint with it.
_hint_seed(hint) ==
  LET marks == {i \in 1..(Len(hint) - 1) :
                  hint[i] \in {"arrived from ", "descended from "}}
  IN  world.scenery.hint_seed[IF marks = {} THEN 1 ELSE 2]

_terrain_ref(bp) ==
  IF Len(bp.terrain) = 0 THEN <<>>
  ELSE <<"You notice ", bp.terrain[1], " nearby.">>

_distant_ref(bp) ==
  IF Len(bp.distant_features) = 0 THEN <<>> ELSE bp.distant_features[1]

_scale_adjective(scale) ==
  IF scale = "cramped" THEN <<"narrow">>
  ELSE IF scale = "room" THEN <<"modest">>
  ELSE IF scale = "wide" THEN <<"broad">>
  ELSE IF scale = "vast" THEN <<"vast">>
  ELSE <<>>

RECURSIVE Format(_, _, _)
\* template.format(...): the template's own text, then what fills its placeholders
Format(slots, i, bp) ==
  IF i > Len(slots) THEN <<>>
  ELSE (IF slots[i] = "scale" THEN _scale_adjective(bp.scale)
        ELSE IF slots[i] = "terrain_ref" THEN _terrain_ref(bp)
        ELSE _distant_ref(bp))
       \o Format(slots, i + 1, bp)

_generate_fallback(bp) ==
  LET biome == StripPrefix(bp.biome)
      templates == DictGet(_TEMPLATES, biome, _DEFAULT_TEMPLATES)
      seed == _hint_seed(bp.description_hint)
      template == templates[(seed % Len(templates)) + 1]
      text == <<template.id>> \o Format(template.slots, 1, bp)
      with_landmark == IF bp.landmark # NoneStr
                       THEN text \o <<" You are ", bp.landmark, ".">> ELSE text
  IN  IF StartsWith(bp.biome, "eldritch_")
      THEN with_landmark \o <<" The air shimmers with an unsettling, unnatural energy.">>
      ELSE IF StartsWith(bp.biome, "ancient_")
      THEN with_landmark \o <<" There is a palpable sense of age to this place.">>
      ELSE with_landmark

\* What one external writer (_call_claude, _call_openai) does when called: it
\* raises, or returns a text; the empty text stands for both "" and None.
Returns(text) == [raises |-> FALSE, text |-> text]
Raises == [raises |-> TRUE, text |-> <<>>]

RECURSIVE RStripDot(_)
\* result.rstrip(".")
RStripDot(text) ==
  IF Len(text) > 0 /\ text[Len(text)] = "." THEN RStripDot(SubSeq(text, 1, Len(text) - 1))
  ELSE text

\* The writer calls the try block of generate_room_description makes, given
\* what the process environment and the writers do during the call (env): the
\* import of the writers or the building of the prompt fails or not,
\* LLM_PROVIDER, and each writer's answer.
WritersCalled(env) ==
  IF env.import_error \/ env.prompt_error THEN {}
  ELSE IF env.provider \in {"claude", "anthropic"} THEN {env.claude}
  ELSE IF env.provider = "openai" THEN {env.openai}
  ELSE IF env.claude.raises \/ Len(env.claude.text) > 0 THEN {env.claude}
  ELSE {env.claude, env.openai}

\* No writer called answers: each returns nothing or raises.
NoAnswer(env) == \A w \in WritersCalled(env) : w.raises \/ Len(w.text) = 0

\* The try block without its "if result:" test and with nothing after it.
generate_room_description_unguarded(bp, ctx, env) ==
  LET first == IF env.provider = "openai" THEN env.openai ELSE env.claude
      second == IF env.provider \in {"claude", "anthropic", "openai"} THEN first
                ELSE IF Len(first.text) = 0 THEN env.openai ELSE first
      raised == env.import_error \/ env.prompt_error \/ first.raises \/ second.raises
  IN  IF raised THEN _generate_fallback(bp)
      ELSE IF bp.landmark # NoneStr /\ ~InSeq(bp.landmark, second.text)
      THEN RStripDot(second.text) \o <<", ", bp.landmark, ".">>
      ELSE second.text

\* generate_room_description.  The prompt built for the writers is read by
\* them alone.
\* A description step that returns the writer's text as it came.
generate_room_description_verbatim(bp, ctx, env) ==
  LET first == IF env.provider = "openai" THEN env.openai ELSE env.claude
      second == IF env.provider \in {"claude", "anthropic", "openai"} THEN first
                ELSE IF Len(first.text) = 0 THEN env.openai ELSE first
      raised == env.import_error \/ env.prompt_error \/ first.raises \/ second.raises
  IN  IF ~raised /\ Len(second.text) > 0 THEN second.text
      ELSE _generate_fallback(bp)

generate_room_description(bp, ctx, env) ==
  LET first == IF env.provider = "openai" THEN env.openai ELSE env.claude
      second == IF env.provider \in {"claude", "anthropic", "openai"} THEN first
                ELSE IF Len(first.text) = 0 THEN env.openai ELSE first
      raised == env.import_error \/ env.prompt_error \/ first.raises \/ second.raises
      result == second.text
  IN  IF ~raised /\ Len(result) > 0
      THEN IF bp.landmark # NoneStr /\ ~InSeq(bp.landmark, result)
           THEN RStripDot(result) \o <<", ", bp.landmark, ".">>
           ELSE result
      ELSE _generate_fallback(bp)

\* --------------------------------------------------------------- __init__.py

\* _GENERATORS[name] = generator: the registry after the assignment.
SetItem(registry, name, gen) ==
  [k \in DOMAIN registry \cup {name} |-> IF k = name THEN gen ELSE registry[k]]

_get_generator(name) ==
  LET gen == IF name \in DOMAIN _GENERATORS THEN _GENERATORS[name] ELSE NoneStr
  IN  IF gen = NoneStr THEN _GENERATORS["overworld"] ELSE gen

\* generator.generate(coords, context), by the class of the generator object
Generate(gen, coords, ctx) ==
  IF gen = "DungeonGenerator" THEN DungeonGenerate(coords, ctx)
  ELSE OverworldGenerate(coords, ctx)

\* The same from the point where generate has read context.biome_data
GenerateWith(gen, coords, biome_data, ctx) ==
  IF gen = "DungeonGenerator" THEN DungeonGenerateWith(coords, biome_data, ctx)
  ELSE OverworldGenerateWith(coords, biome_data, ctx)

RECURSIVE AppendNew(_, _, _)
\* for terrain_spec in additions: if terrain_spec not in terrain: terrain.append(..)
AppendNew(terrain, additions, i) ==
  IF i > Len(additions) THEN terrain
  ELSE AppendNew(IF InSeq(additions[i], terrain) THEN terrain
                 ELSE Append(terrain, additions[i]),
                 additions, i + 1)

\* The overlay with the override applied wherever the landmark reaches.
LandmarkOverlay_reaching(bp, coords) ==
  LET found == check_landmark(coords[1], coords[2], coords[3])
      landmark == The(found)
  IN  IF ~IsSome(found) THEN bp
      ELSE [bp EXCEPT
              !.landmark = landmark.description_modifier,
              !.terrain = AppendNew(bp.terrain, landmark.terrain_additions, 1),
              !.biome = IF Len(landmark.biome_override) > 0
                        THEN landmark.biome_override ELSE @]

\* The overlay with the landmark's terrain put ahead of the generator's.
LandmarkOverlay_leading(bp, coords) ==
  LET found == check_landmark(coords[1], coords[2], coords[3])
      landmark == The(found)
  IN  IF ~IsSome(found) THEN bp
      ELSE [bp EXCEPT
              !.landmark = landmark.description_modifier,
              !.terrain = AppendNew(landmark.terrain_additions, bp.terrain, 1),
              !.biome = IF Len(landmark.biome_override) > 0 /\ landmark.center = coords
                        THEN landmark.biome_override ELSE @]

\* Step 4 of generate_room: the landmark's influence on the blueprint
LandmarkOverlay(bp, coords) ==
  LET overlay(landmark) ==
        [bp EXCEPT
           !.landmark = landmark.description_modifier,
           !.terrain = AppendNew(bp.terrain, landmark.terrain_additions, 1),
           !.biome = IF Len(landmark.biome_override) > 0 /\ landmark.center = coords
                     THEN landmark.biome_override ELSE @]
      apply(found) == IF ~IsSome(found) THEN bp ELSE overlay(The(found))
  IN  apply(check_landmark(coords[1], coords[2], coords[3]))

\* A description step that hands the blueprint to the writer, whose answer
\* comes back with the exits it chose to keep: none.
Describe_rewriting(bp, ctx, env) ==
  [bp EXCEPT !.description = generate_room_description(bp, ctx, env),
             !.exits = IF NoAnswer(env) THEN @ ELSE <<>>]

\* Step 5 of generate_room
Describe(bp, ctx, env) ==
  [bp EXCEPT !.description = generate_room_description(bp, ctx, env)]

\* Steps 1 to 4 of generate_room(coordinates, context): the blueprint before
\* its description, the context object as the call leaves it and the
\* generator it used
Prepare(coords, ctx) ==
  LET biome_data == get_biome(coords[1], coords[2], coords[3])
      ctx1 == [ctx EXCEPT !.biome_data = Some(biome_data)]
      gen == _get_generator(biome_data.generator_name)
  IN  [blueprint |-> LandmarkOverlay(Generate(gen, coords, ctx1), coords),
       context |-> ctx1, generator |-> gen]

\* generate_room(coordinates, context), the writers doing env during step 5
generate_room(coords, ctx, env) ==
  LET r == Prepare(coords, ctx)
  IN  [r EXCEPT !.blueprint = Describe(r.blueprint, r.context, env)]

\* GenerationContext(): every field at its default
DefaultContext ==
  [came_from |-> <<>>, came_from_description |-> <<>>, came_from_biome |-> <<>>,
   neighbors |-> <<>>, biome_data |-> NoneObj]

\* The neighbours dict a caller builds for a tile: the flagged neighbours have
\* an exit to the tile; a room opposite a flagged one exists too and has none.
NeighborsOf(coords, flagged) ==
  LET present == flagged \cup {_OPPOSITE[d] : d \in flagged}
      order == SelectSeq(<<"north", "south", "east", "west", "up", "down">>,
                         LAMBDA d : d \in present)
  IN  [i \in 1..Len(order) |->
         <<order[i], [coords |-> _dest_coords(coords, order[i]),
                      description |-> <<"A room.">>,
                      biome |-> <<"forest">>,
                      has_exit_to_us |-> order[i] \in flagged]>>]

\* The context a caller hands generate_room for a tile it reached from cf
\* (<<>>: from nowhere), with the neighbours F having an exit to it.
ContextFor(coords, cf, F) ==
  [came_from |-> cf,
   came_from_description |-> IF cf = <<>> THEN <<>> ELSE <<"A dense forest clearing.">>,
   came_from_biome |-> IF cf = <<>> THEN <<>> ELSE <<"forest">>,
   neighbors |-> NeighborsOf(coords, F),
   biome_data |-> NoneObj]

\* The contexts a caller hands generate_room for a tile.
Contexts(coords) ==
  UNION {{ContextFor(coords, cf, F) :
            F \in {S \in SUBSET Directions :
                     Cardinality(S) + (IF cf = <<>> THEN 0 ELSE 1) <= MaxForced}} :
         cf \in {<<>>} \cup {_dest_coords(coords, d) : d \in Directions}}

\* What the writers do during a call.
Env(import_error, prompt_error, provider, claude, openai) ==
  [import_error |-> import_error, prompt_error |-> prompt_error,
   provider |-> provider, claude |-> claude, openai |-> openai]
NoEnv == Env(FALSE, FALSE, "", Returns(<<>>), Returns(<<>>))
LlmEnvs ==
  {NoEnv,
   Env(TRUE, FALSE, "", Returns(<<"unused">>), Returns(<<"unused">>)),
   Env(FALSE, TRUE, "openai", Returns(<<"unused">>), Returns(<<"unused">>)),
   Env(FALSE, FALSE, "claude", Raises, Returns(<<"unused">>)),
   Env(FALSE, FALSE, "", Returns(<<>>), Returns(<<"A quiet place", ".">>))}

StartGenerators == [overworld |-> "OverworldGenerator", dungeon |-> "DungeonGenerator"]

\* --------------------------------------------------------------- the caller

Init ==
  /\ world \in Worlds
  /\ strhash \in HashFns
  /\ coordinates \in Tiles
  /\ context = DefaultContext
  /\ ctx_before = DefaultContext
  /\ llm = NoEnv
  /\ blueprint = NoneObj
  /\ generator = NoneStr
  /\ calls = 0
  /\ pc = "idle"
  /\ _GENERATORS = StartGenerators
  /\ heap = <<>>
  /\ threads = <<>>
  /\ probe = NoneObj

\* The caller builds a fresh context for the tile.
NewContext ==
  /\ pc = "idle"
  /\ \E c \in Contexts(coordinates) : context' = c
  /\ pc' = "ready"
  /\ calls' = 0
  /\ UNCHANGED <<world, strhash, coordinates, ctx_before, llm, blueprint, generator,
                 _GENERATORS, heap, threads, probe>>

\* blueprint = generate_room(coordinates, context)
CallGenerateRoom ==
  /\ pc \in {"ready", "done"}
  /\ calls < MaxCalls
  /\ LET r == Prepare(coordinates, context)
     IN  /\ context' = r.context
         /\ generator' = r.generator
         /\ \E env \in LlmEnvs :
              /\ blueprint' = Some(Describe(r.blueprint, r.context, env))
              /\ llm' = env
  /\ ctx_before' = context
  /\ calls' = calls + 1
  /\ pc' = "done"
  /\ UNCHANGED <<world, strhash, coordinates, _GENERATORS, heap, threads, probe>>

\* The caller is done with the context and the blueprint.
DropContext ==
  /\ pc = "done"
  /\ context' = DefaultContext
  /\ ctx_before' = DefaultContext
  /\ llm' = NoEnv
  /\ blueprint' = NoneObj
  /\ generator' = NoneStr
  /\ calls' = 0
  /\ pc' = "idle"
  /\ UNCHANGED <<world, strhash, coordinates, _GENERATORS, heap, threads, probe>>

Next == NewContext \/ CallGenerateRoom \/ DropContext

Spec == Init /\ [][Next]_vars

\* ------------------------------------------- concurrent calls of generate_room

\* Two threads each call generate_room once, on different tiles of the column.
\* A step is one statement of generate_room (the call generator.generate takes
\* two: it reads context.biome_data on entry, and _generate_exits reads the
\* context again).  Threads may have been handed the same context object.
ThreadIds == {1, 2}

ConcWorlds == {w \in Worlds : w.seed = 0 /\ w.home = "mountain"}

\* The contexts the concurrent calls are handed: a default one, or one with a
\* neighbour to the east that has an exit to the tile.
ConcContexts(coords) == {DefaultContext, ContextFor(coords, <<>>, {"east"})}

\* A thread about to call generate_room(coords, heap[ref])
Thread(coords, ref, handed) ==
  [pc |-> "call", coords |-> coords, ctx |-> ref, handed |-> handed,
   biome_data |-> NoneObj, read |-> NoneObj, generator |-> NoneStr,
   blueprint |-> NoneObj, llm |-> NoEnv]

callerVars == <<coordinates, context, ctx_before, llm, blueprint, generator, calls, pc,
                probe>>

InitConc ==
  /\ world \in ConcWorlds
  /\ strhash \in HashFns
  /\ _GENERATORS = StartGenerators
  /\ \E c1 \in Tiles, c2 \in Tiles, shared \in BOOLEAN :
       \E k1 \in ConcContexts(c1), k2 \in ConcContexts(c2) :
         /\ c1[3] < c2[3]
         /\ heap = <<k1, k2>>
         /\ threads = <<Thread(c1, 1, k1),
                        IF shared THEN Thread(c2, 1, k1) ELSE Thread(c2, 2, k2)>>
  /\ coordinates = <<HomeXY[1], HomeXY[2], 0>>
  /\ context = DefaultContext
  /\ ctx_before = DefaultContext
  /\ llm = NoEnv
  /\ blueprint = NoneObj
  /\ generator = NoneStr
  /\ calls = 0
  /\ pc = "idle"
  /\ probe = NoneObj

\* biome_data = get_biome(*coordinates); context.biome_data = biome_data
StepBiome(t) ==
  /\ threads[t].pc = "call"
  /\ LET me == threads[t]
         biome_data == get_biome(me.coords[1], me.coords[2], me.coords[3])
     IN  /\ heap' = [heap EXCEPT ![me.ctx].biome_data = Some(biome_data)]
         /\ threads' = [threads EXCEPT ![t].biome_data = Some(biome_data),
                                       ![t].pc = "select"]
  /\ UNCHANGED <<world, strhash, _GENERATORS, callerVars>>

\* generator = _get_generator(biome_data.generator_name)
StepSelect(t) ==
  /\ threads[t].pc = "select"
  /\ threads' = [threads EXCEPT
                   ![t].generator = _get_generator(The(threads[t].biome_data).generator_name),
                   ![t].pc = "generate"]
  /\ UNCHANGED <<world, strhash, _GENERATORS, heap, callerVars>>

\* generator.generate(coordinates, context) starts: it reads context.biome_data
StepEnterGenerate(t) ==
  /\ threads[t].pc = "generate"
  /\ threads' = [threads EXCEPT ![t].read = heap[threads[t].ctx].biome_data,
                                ![t].pc = "exits"]
  /\ UNCHANGED <<world, strhash, _GENERATORS, heap, callerVars>>

\* blueprint = generator.generate(coordinates, context) ends: the exits, which
\* read the context again, and the rest of the blueprint
StepGenerate(t) ==
  /\ threads[t].pc = "exits"
  /\ LET me == threads[t]
     IN  threads' = [threads EXCEPT
                       ![t].blueprint = Some(GenerateWith(me.generator, me.coords,
                                                          me.read, heap[me.ctx])),
                       ![t].pc = "landmark"]
  /\ UNCHANGED <<world, strhash, _GENERATORS, heap, callerVars>>

\* landmark = check_landmark(*coordinates) and what follows from it
StepLandmark(t) ==
  /\ threads[t].pc = "landmark"
  /\ threads' = [threads EXCEPT
                   ![t].blueprint = Some(LandmarkOverlay(The(threads[t].blueprint),
                                                         threads[t].coords)),
                   ![t].pc = "describe"]
  /\ UNCHANGED <<world, strhash, _GENERATORS, heap, callerVars>>

\* blueprint.description = generate_room_description(blueprint, context); return
StepDescribe(t) ==
  /\ threads[t].pc = "describe"
  /\ \E env \in LlmEnvs :
       threads' = [threads EXCEPT
                     ![t].blueprint = Some(Describe(The(threads[t].blueprint),
                                                    heap[threads[t].ctx], env)),
                     ![t].llm = env,
                     ![t].pc = "returned"]
  /\ UNCHANGED <<world, strhash, _GENERATORS, heap, callerVars>>

NextConc ==
  \E t \in ThreadIds :
    \/ StepBiome(t)
    \/ StepSelect(t)
    \/ StepEnterGenerate(t)
    \/ StepGenerate(t)
    \/ StepLandmark(t)
    \/ StepDescribe(t)

SpecConc == InitConc /\ [][NextConc]_vars

\* ------------------------------------------------------------------- claims

\* C1: two successive generate_room calls on the same tile and the same
\* context object, in neither of which a writer answers, return blueprints
\* with the same exits (key for key, value for value), biome, scale, tags,
\* terrain list and description.
C1_Determinism ==
  [][(pc = "done" /\ pc' = "done" /\ NoAnswer(llm) /\ NoAnswer(llm'))
       => /\ DictEq(The(blueprint').exits, The(blueprint).exits)
          /\ The(blueprint').biome = The(blueprint).biome
          /\ The(blueprint').scale = The(blueprint).scale
          /\ The(blueprint').tags = The(blueprint).tags
          /\ The(blueprint').terrain = The(blueprint).terrain
          /\ The(blueprint').description = The(blueprint).description]_vars

\* A second call on one context object has returned a surface room with
\* exits and terrain, no writer having answered.
C1_Witness ==
  /\ pc = "done"
  /\ calls = 2
  /\ NoAnswer(llm)
  /\ generator = "OverworldGenerator"
  /\ Len(The(blueprint).exits) >= 2
  /\ Len(The(blueprint).terrain) >= 2

\* C2: with either generator, every direction whose neighbour in the context
\* carries has_exit_to_us is a key of the returned blueprint's exits.
C2_Reciprocity ==
  pc = "done" =>
    \A i \in 1..Len(ctx_before.neighbors) :
      ctx_before.neighbors[i][2].has_exit_to_us
        => ctx_before.neighbors[i][1] \in Keys(The(blueprint).exits)

\* A surface room whose biome asks for two exits was generated with the
\* neighbours above and below flagged: both are exits of it.
C2_Witness ==
  /\ pc = "done"
  /\ generator = "OverworldGenerator"
  /\ DictGet(EXIT_PROFILES, StripPrefix(The(blueprint).biome), _DEFAULT_PROFILE).base_exits = 2
  /\ ForcedByNeighbors(ctx_before) = {"up", "down"}
  /\ {"up", "down"} \subseteq Keys(The(blueprint).exits)

\* C3: when came_from is the tile one step north, south, east or west of the
\* tile, that direction is a key of the returned blueprint's exits and maps to
\* came_from, with either generator.
C3_ReturnPathHorizontal ==
  pc = "done" =>
    \A d \in Range(_CARDINALS) :
      ctx_before.came_from = _dest_coords(coordinates, d)
        => /\ d \in Keys(The(blueprint).exits)
           /\ ValueOf(The(blueprint).exits, d) = ctx_before.came_from

\* An underground room entered from the west whose two other exits were
\* taken by the quota: west is there for came_from alone.
C3_Witness ==
  /\ pc = "done"
  /\ generator = "DungeonGenerator"
  /\ ctx_before.came_from = _dest_coords(coordinates, "west")
  /\ ForcedByNeighbors(ctx_before) = {}
  /\ Keys(The(blueprint).exits) \cap Range(_CARDINALS) = {"north", "south", "west"}

\* C4: when came_from is the tile directly above or below the tile, the
\* vertical direction leading back to it is a key of the returned blueprint's
\* exits, on the surface as well as underground.
C4_ReturnPathVertical ==
  pc = "done" =>
    \A d \in {"up", "down"} :
      ctx_before.came_from = _dest_coords(coordinates, d)
        => d \in Keys(The(blueprint).exits)

\* C5: the generator tag get_biome returned is "dungeon" exactly when z < 0
\* and "overworld" exactly when z >= 0, and the blueprint was produced by the
\* generator registered under that tag: the underground generator below the
\* surface, the surface generator from the surface up.
C5_Routing ==
  pc = "done" =>
    LET tag == The(context.biome_data).generator_name
    IN  /\ The(context.biome_data) = get_biome(coordinates[1], coordinates[2], coordinates[3])
        /\ (tag = "dungeon") <=> (coordinates[3] < 0)
        /\ (tag = "overworld") <=> (coordinates[3] >= 0)
        /\ generator = _GENERATORS[tag]
        /\ generator = IF coordinates[3] < 0 THEN "DungeonGenerator" ELSE "OverworldGenerator"
        /\ ("underground" \in Range(The(blueprint).tags)) <=> (coordinates[3] < 0)

\* The tile at sea level was generated: by the surface generator.
C5_Witness ==
  /\ pc = "done"
  /\ coordinates[3] = 0
  /\ generator = "OverworldGenerator"
  /\ Len(The(blueprint).exits) > 0

\* C6: the description step of a generate_room call leaves the blueprint's
\* exits as they stood before it, and every other field but description,
\* whatever the writers return or raise.
C6_DescriptionFrame ==
  [][\A t \in DOMAIN threads :
       (threads[t].pc = "describe" /\ threads'[t].pc = "returned")
         => /\ The(threads'[t].blueprint).exits = The(threads[t].blueprint).exits
            /\ threads'[t].blueprint =
                 Some([The(threads[t].blueprint) EXCEPT
                         !.description = The(threads'[t].blueprint).description])]_vars

\* A call has returned a room with exits and a landmark whose description a
\* writer wrote.
C6_Witness ==
  \E t \in DOMAIN threads :
    /\ threads[t].pc = "returned"
    /\ ~NoAnswer(threads[t].llm)
    /\ InSeq("A quiet place", The(threads[t].blueprint).description)
    /\ The(threads[t].blueprint).landmark # NoneStr
    /\ Len(The(threads[t].blueprint).exits) >= 2

\* C7: the blueprint generate_room returns has a non-empty description, and
\* when every writer called returned nothing or raised, or the import or the
\* prompt failed, the description is exactly the template fallback for the
\* blueprint.
C7_Fallback ==
  pc = "done" =>
    /\ Len(The(blueprint).description) > 0
    /\ NoAnswer(llm) => The(blueprint).description = _generate_fallback(The(blueprint))

\* A call returned during which both writers were called and returned nothing.
C7_Witness ==
  /\ pc = "done"
  /\ WritersCalled(llm) = {llm.claude, llm.openai}
  /\ NoAnswer(llm)
  /\ Len(The(blueprint).description) > 1

\* C8: the exits a call selected are the exits it selects under every
\* process' string hash of the direction names.
C8_HashIndependent ==
  pc = "done" =>
    \A h \in HashFns :
      Keys(The(blueprint).exits) =
        Keys(IF generator = "DungeonGenerator"
             THEN DungeonExits(coordinates,
                               dungeon_coord_seed(coordinates[1], coordinates[2], coordinates[3]),
                               context, h)
             ELSE OverworldExits(coordinates,
                                 StripPrefix(The(context.biome_data).biome_name),
                                 _coord_seed(coordinates[1], coordinates[2], coordinates[3]),
                                 context, h))

\* C9: a generate_room call that ran interleaved with another returned the
\* blueprint it returns when run alone on the context it was handed.
C9_Isolation ==
  \A t \in DOMAIN threads :
    threads[t].pc = "returned"
      => The(threads[t].blueprint)
           = generate_room(threads[t].coords, threads[t].handed, threads[t].llm).blueprint

\* C10: after generate_room returns, every field of the caller's context is
\* as it was when the call was made.
C10_ContextReadOnly ==
  pc = "done" => context = ctx_before

\* ------------------------------------------------- landmark lookups, directly

\* Where the layouts put centers, by offset from the home column and level,
\* and the md5 prefixes there: multiples of LANDMARK_RARITY picking a
\* watchtower (radius 3), a hollow tree (2) and a traders' camp (4), and one
\* prefix that makes no center.
MaxSpan == 6
CenterSpots == {<<0, 0, 0>>, <<2, 1, 0>>, <<-1, -2, 0>>, <<2, 1, -1>>, <<-2, 0, 0>>,
                <<2, -1, 0>>}
CenterSeeds == {0, 150, 450, 75}
Layouts ==
  {<<>>} \cup {<<<<s, k>>>> : s \in CenterSpots, k \in CenterSeeds}
         \cup {<<<<<<0, 0, 0>>, k>>, <<s, l>>>> :
                  k \in {150, 450}, s \in CenterSpots \ {<<0, 0, 0>>}, l \in {0, 150, 450}}
         \cup {<<<<<<2, 1, 0>>, k>>, <<<<2, -1, 0>>, l>>>> : k \in {0, 450}, l \in {150, 450}}
LandmarkWorlds ==
  {[home |-> "plains", seed |-> 0,
    scenery |-> [view |-> "same", far_seed |-> 0, landmarks |-> lms,
                 hint_seed |-> <<0, 0>>]] : lms \in Layouts}
Queries ==
  {<<HomeXY[1] + dx, HomeXY[2] + dy, z>> :
     dx \in -MaxSpan..MaxSpan, dy \in {-3, -2, 0, 1, 2, 5}, z \in {-1, 0}}

\* No call of generate_room is under way.
IdleCaller ==
  /\ coordinates = <<HomeXY[1], HomeXY[2], 0>>
  /\ context = DefaultContext
  /\ ctx_before = DefaultContext
  /\ llm = NoEnv
  /\ blueprint = NoneObj
  /\ generator = NoneStr
  /\ calls = 0
  /\ pc = "idle"
  /\ heap = <<>>
  /\ threads = <<>>

InitLandmark ==
  /\ world \in LandmarkWorlds
  /\ strhash \in HashFns
  /\ _GENERATORS = StartGenerators
  /\ IdleCaller
  /\ probe = NoneObj

\* A caller asks for the landmark of one tile.
CallCheckLandmark ==
  \E q \in Queries :
    /\ probe = NoneObj
    /\ probe' = Some([coords |-> q, landmark |-> check_landmark(q[1], q[2], q[3])])
    /\ UNCHANGED <<world, strhash, coordinates, context, ctx_before, llm, blueprint,
                   generator, calls, pc, _GENERATORS, heap, threads>>

NextLandmark == CallCheckLandmark

SpecLandmark == InitLandmark /\ [][NextLandmark]_vars

\* ----------------------------------------------------- the claims, continued

\* C11: every entry of the returned blueprint's exits maps one of the six
\* directions to the tile one step away in it (north +y, south -y, east +x,
\* west -x, up +z, down -z): never the room itself nor a tile further off;
\* no direction is listed twice.
C11_ExitGeometry ==
  pc = "done" =>
    LET exits == The(blueprint).exits
    IN  /\ \A i \in 1..Len(exits) :
             /\ exits[i][1] \in {"north", "south", "east", "west", "up", "down"}
             /\ exits[i][2] =
                  <<coordinates[1] + (IF exits[i][1] = "east" THEN 1
                                      ELSE IF exits[i][1] = "west" THEN -1 ELSE 0),
                    coordinates[2] + (IF exits[i][1] = "north" THEN 1
                                      ELSE IF exits[i][1] = "south" THEN -1 ELSE 0),
                    coordinates[3] + (IF exits[i][1] = "up" THEN 1
                                      ELSE IF exits[i][1] = "down" THEN -1 ELSE 0)>>
             /\ exits[i][2] # coordinates
        /\ \A i, j \in 1..Len(exits) : exits[i][1] = exits[j][1] => i = j

\* A room was returned with exits up, down and along both map axes.
C11_Witness ==
  /\ pc = "done"
  /\ {"up", "down", "west", "south"} \subseteq Keys(The(blueprint).exits)

\* C12: check_landmark(q) returns a landmark exactly when some center on q's
\* level lies within that landmark's own radius of q by Manhattan distance;
\* the one returned is such a center and no such center is nearer; asked at a
\* center, it returns that center's landmark.
C12_NearestLandmark ==
  IsSome(probe) =>
    LET q == The(probe).coords
        r == The(probe).landmark
        far(c) == Abs(c[1] - q[1]) + Abs(c[2] - q[2])
        plane == {<<q[1] + dx, q[2] + dy, q[3]>> :
                    dx \in -MaxSpan..MaxSpan, dy \in -MaxSpan..MaxSpan}
        near == {c \in plane :
                   /\ _landmark_seed(c[1], c[2], c[3]) % 150 = 0
                   /\ far(c) <= The(_landmark_at(c[1], c[2], c[3])).radius}
    IN  /\ IsSome(r) <=> near # {}
        /\ IsSome(r) =>
             /\ The(r).center \in near
             /\ r = _landmark_at(The(r).center[1], The(r).center[2], The(r).center[3])
             /\ \A c \in near : far(The(r).center) <= far(c)
        /\ q \in near => The(r).center = q

\* A tile between two centers that both reach it got the nearer one, while a
\* center on the level below was passed over.
C12_Witness ==
  /\ IsSome(probe)
  /\ world.scenery.landmarks = <<<<<<0, 0, 0>>, 450>>, <<<<2, 1, 0>>, 0>>>>
  /\ The(probe).coords = <<HomeXY[1] + 2, HomeXY[2], 0>>
  /\ The(The(probe).landmark).center = <<HomeXY[1] + 2, HomeXY[2] + 1, 0>>

C14_TerrainOverlay ==
  pc = "done" =>
    LET found == check_landmark(coordinates[1], coordinates[2], coordinates[3])
        own == Generate(generator, coordinates, context).terrain
        terrain == The(blueprint).terrain
        added == SubSeq(terrain, Len(own) + 1, Len(terrain))
        extra == The(found).terrain_additions
    IN  IF found = NoneObj
        THEN /\ terrain = own
             /\ The(blueprint).landmark = NoneStr
        ELSE /\ Len(terrain) >= Len(own)
             /\ SubSeq(terrain, 1, Len(own)) = own
             /\ \A i \in 1..Len(added) : InSeq(added[i], extra) /\ ~InSeq(added[i], own)
             /\ \A i, j \in 1..Len(added) :
                  i < j => \E k, l \in 1..Len(extra) :
                             k < l /\ extra[k] = added[i] /\ extra[l] = added[j]
             /\ \A k \in 1..Len(extra) :
                  Cardinality({i \in 1..Len(terrain) : terrain[i] = extra[k]}) = 1
             /\ The(blueprint).landmark = The(found).description_modifier

\* A room on a watchtower's center was returned with the generator's terrain
\* and the pile of bricks after it.
C14_Witness ==
  /\ pc = "done"
  /\ Len(The(blueprint).terrain) >= 2
  /\ The(blueprint).terrain[1] # "a pile of ancient bricks"
  /\ The(blueprint).terrain[Len(The(blueprint).terrain)] = "a pile of ancient bricks"
  /\ The(blueprint).landmark = "near the ruins of an old watchtower"

\* --------------------------------------------------- the classifier, directly

\* Samples on both sides of every threshold the classifiers compare with.
Elevations == {-100, -51, -50, -1, 0, 10, 11, 30, 31, 35, 36, 60, 61, 100}
Moistures == {-100, -41, -40, -21, -20, 15, 16, 20, 21, 30, 31, 50, 51, 100}
Civilizations == {-100, 40, 41, 70, 71, 100}
Weirdnesses == {0, 35, 36, 50, 51, 60, 61}

InitSurface ==
  /\ world = [home |-> "plains", seed |-> 0, scenery |-> Bare]
  /\ strhash \in HashFns
  /\ _GENERATORS = StartGenerators
  /\ IdleCaller
  /\ probe = NoneObj

\* A caller classifies one surface sample.
CallClassifySurface ==
  \E e \in Elevations, m \in Moistures, c \in Civilizations, w \in {0, 61} :
    /\ probe = NoneObj
    /\ probe' = Some([elev |-> e, moist |-> m, civ |-> c, weird |-> w,
                      biome |-> _classify_surface(e, m, c, w)])
    /\ UNCHANGED <<world, strhash, coordinates, context, ctx_before, llm, blueprint,
                   generator, calls, pc, _GENERATORS, heap, threads>>

NextSurface == CallClassifySurface

SpecSurface == InitSurface /\ [][NextSurface]_vars

\* C16: _classify_surface returns one of the 15 surface names for every
\* sample.  Civilization above 0.4 decides first: road above 0.7, else
\* hilltop_ruins when the elevation is above 0.3, else settlement_outskirts,
\* whatever the moisture.  Otherwise an elevation above 0.35 gives
\* mountain_peak, misty_highlands or rocky_hills; otherwise an elevation below
\* -0.5 gives lake_shore or ravine; only otherwise is the name one of swamp,
\* dense_forest, forest, grassland, plains, desert and scrubland.
C16_SurfacePriority ==
  IsSome(probe) =>
    LET p == The(probe)
        settled == {"road", "hilltop_ruins", "settlement_outskirts"}
        high == {"mountain_peak", "misty_highlands", "rocky_hills"}
        low == {"lake_shore", "ravine"}
        mid == {"swamp", "dense_forest", "forest", "grassland", "plains",
                "desert", "scrubland"}
    IN  /\ p.biome \in settled \cup high \cup low \cup mid
        /\ Cardinality(settled \cup high \cup low \cup mid) = 15
        /\ p.civ > 40 =>
             p.biome = (IF p.civ > 70 THEN "road"
                        ELSE IF p.elev > 30 THEN "hilltop_ruins"
                        ELSE "settlement_outskirts")
        /\ p.civ <= 40 /\ p.elev > 35 => p.biome \in high
        /\ p.civ <= 40 /\ p.elev <= 35 /\ p.elev < -50 => p.biome \in low
        /\ p.civ <= 40 /\ p.elev <= 35 /\ p.elev >= -50 => p.biome \in mid

\* A high and wet sample with civilization between the two thresholds was
\* classified: hilltop ruins, not a mountain.
C16_Witness ==
  /\ IsSome(probe)
  /\ The(probe).civ = 41
  /\ The(probe).elev = 61
  /\ The(probe).moist = 51
  /\ The(probe).biome = "hilltop_ruins"

\* ------------------------------------------------------- get_biome, directly

\* The levels asked about: Depth below the surface to MaxZ above it.
Depth == 4
MaxZ == 5
Heights == -Depth..MaxZ

\* Worlds whose home column has raw samples around the thresholds.
BiomeWorlds ==
  {[home |-> "plains", seed |-> 0, scenery |-> Bare, raw |-> Sample(e, m, c, w)] :
     e \in {-100, -60, 0, 70, 100}, m \in {0, 40, 41}, c \in {0, 50},
     w \in Weirdnesses}

InitBiome ==
  /\ world \in BiomeWorlds
  /\ strhash \in HashFns
  /\ _GENERATORS = StartGenerators
  /\ IdleCaller
  /\ probe = NoneObj

\* A caller asks for the biome of the home column on one level, any number
\* of times.
CallGetBiome ==
  \E z \in Heights :
    /\ probe' = Some([z |-> z, biome |-> get_biome(HomeXY[1], HomeXY[2], z)])
    /\ UNCHANGED <<world, strhash, coordinates, context, ctx_before, llm, blueprint,
                   generator, calls, pc, _GENERATORS, heap, threads>>

NextBiome == CallGetBiome

SpecBiome == InitBiome /\ [][NextBiome]_vars

\* C15: on every level, the biome name get_biome returns starts with
\* "eldritch_" exactly when the weirdness sample is above 0.6 and with
\* "ancient_" exactly when it is above 0.35 and not above 0.6, and has neither
\* prefix otherwise; it never has both.
C15_WeirdnessPrefix ==
  IsSome(probe) =>
    LET name == The(probe).biome.biome_name
        weird == The(probe).biome.weirdness
    IN  /\ StartsWith(name, "eldritch_") <=> weird > 60
        /\ StartsWith(name, "ancient_") <=> (weird > 35 /\ weird <= 60)
        /\ ~(InSeq("eldritch_", name) /\ InSeq("ancient_", name))

\* C17: below the surface the biome name is crystal_cavern when the weirdness
\* is above 0.5, whatever the moisture; else underground_river when the
\* moisture is above 0.4; else shallow_cave, underground_passage or
\* deep_cavern on levels -1, -2, -3 and deep_underground further down.  The
\* name is this function of level, moisture and weirdness alone: elevation and
\* civilization have no part in it.
C17_Underground ==
  IsSome(probe) /\ The(probe).z < 0 =>
    LET z == The(probe).z
        b == The(probe).biome
    IN  b.biome_name =
          <<IF b.weirdness > 50 THEN "crystal_cavern"
            ELSE IF b.moisture > 40 THEN "underground_river"
            ELSE IF z = -1 THEN "shallow_cave"
            ELSE IF z = -2 THEN "underground_passage"
            ELSE IF z = -3 THEN "deep_cavern"
            ELSE "deep_underground">>

\* A wet and weird column under a civilized summit was asked about four
\* levels down: a crystal cavern.
C17_Witness ==
  /\ IsSome(probe)
  /\ The(probe).z = -4
  /\ world.raw = Sample(100, 41, 50, 51)
  /\ The(probe).biome.biome_name = <<"crystal_cavern">>

\* C18: of two levels of one column, the higher has the strictly greater
\* elevation, the elevation being the raw sample plus 0.3 per level, clamped
\* to [-1, 1].
C18_HigherIsHigher ==
  [][IsSome(probe) /\ IsSome(probe') /\ The(probe).z < The(probe').z
       => The(probe').biome.elevation > The(probe).biome.elevation]_vars

\* ------------------------------------------------------ the registry, directly

\* The names and objects callers register (generator: object, so None too),
\* the names they look up, and how many registrations a behaviour holds.
MaxRegistrations == 3
RegisteredNames == {"overworld", "dungeon", "test", "cave"}
LookupNames == RegisteredNames \cup {"nonexistent_generator"}
GeneratorObjects == {"MockGenerator", "DungeonGenerator", NoneStr}

\* The caller's record: the register_generator calls made since the module
\* was imported, and the last lookup.
InitRegistry ==
  /\ world = [home |-> "plains", seed |-> 0, scenery |-> Bare]
  /\ strhash \in HashFns
  /\ _GENERATORS = StartGenerators
  /\ IdleCaller
  /\ probe = [registered |-> <<>>, lookup |-> NoneObj]

register_generator ==
  \E name \in RegisteredNames, gen \in GeneratorObjects :
    /\ Len(probe.registered) < MaxRegistrations
    /\ _GENERATORS' = SetItem(_GENERATORS, name, gen)
    /\ probe' = [registered |-> Append(probe.registered, <<name, gen>>),
                 lookup |-> NoneObj]
    /\ UNCHANGED <<world, strhash, coordinates, context, ctx_before, llm, blueprint,
                   generator, calls, pc, heap, threads>>

CallGetGenerator ==
  \E name \in LookupNames :
    /\ probe' = [probe EXCEPT
                   !.lookup = Some([name |-> name, generator |-> _get_generator(name)])]
    /\ UNCHANGED <<world, strhash, coordinates, context, ctx_before, llm, blueprint,
                   generator, calls, pc, _GENERATORS, heap, threads>>

NextRegistry == register_generator \/ CallGetGenerator

SpecRegistry == InitRegistry /\ [][NextRegistry]_vars

ExitBiomes ==
  {<<"plains">>, <<"road">>, <<"forest">>, <<"mountain_peak">>, <<"ravine">>,
   <<"tundra">>}

\* Every context of a tile: arrived from nowhere or from any adjacent tile,
\* any set of neighbours having an exit to it.
ExitContexts(coords) ==
  UNION {{ContextFor(coords, cf, F) : F \in SUBSET Directions} :
         cf \in {<<>>} \cup {_dest_coords(coords, d) : d \in Directions}}

InitExits ==
  /\ world = [home |-> "mountain", seed |-> 0, scenery |-> Bare]
  /\ strhash \in HashFns
  /\ _GENERATORS = StartGenerators
  /\ IdleCaller
  /\ probe = NoneObj

\* OverworldGenerator._generate_exits is called for a surface tile.
CallOverworldExits ==
  \E biome \in ExitBiomes, seed \in SeedValues,
     ctx0 \in ExitContexts(<<HomeXY[1], HomeXY[2], 0>>),
     data \in {NoneObj, Some(get_biome(HomeXY[1], HomeXY[2], 0))} :
    LET coords == <<HomeXY[1], HomeXY[2], 0>>
        ctx == [ctx0 EXCEPT !.biome_data = data]
    IN  /\ probe = NoneObj
        /\ probe' = Some([generator |-> "overworld", coords |-> coords,
                          target |-> DictGet(EXIT_PROFILES, biome, _DEFAULT_PROFILE).base_exits,
                          context |-> ctx,
                          exits |-> _generate_exits(coords, biome, seed, ctx)])
        /\ UNCHANGED <<world, strhash, coordinates, context, ctx_before, llm, blueprint,
                       generator, calls, pc, _GENERATORS, heap, threads>>

\* DungeonGenerator._generate_exits is called for a tile below the surface.
CallDungeonExits ==
  \E z \in {-1, -2}, seed \in SeedValues :
    \E ctx \in ExitContexts(<<HomeXY[1], HomeXY[2], z>>) :
      LET coords == <<HomeXY[1], HomeXY[2], z>>
      IN  /\ probe = NoneObj
          /\ probe' = Some([generator |-> "dungeon", coords |-> coords,
                            target |-> 2 + (seed % 2),
                            context |-> ctx,
                            exits |-> dungeon_generate_exits(coords, seed, ctx)])
          /\ UNCHANGED <<world, strhash, coordinates, context, ctx_before, llm, blueprint,
                         generator, calls, pc, _GENERATORS, heap, threads>>

NextExits == CallOverworldExits \/ CallDungeonExits

SpecExits == InitExits /\ [][NextExits]_vars

\* C20: in both generators the exits selected before the chance-based
\* vertical exit number max(target, forced directions), the target being the
\* biome profile's base_exits (2 to 4) on the surface and 2 + seed % 2
\* underground; a surface room generated from an empty context has exactly
\* base_exits cardinal exits; every exits dict has 2 to 6 entries.
C20_ExitQuota ==
  IsSome(probe) =>
    LET p == The(probe)
        exits == Keys(p.exits)
        cardinals == {"north", "south", "east", "west"}
        forced == ForcedByNeighbors(p.context)
                  \cup ForcedByCameFrom(p.coords, p.context,
                                        IF p.generator = "overworld" THEN _CARDINALS
                                        ELSE _CARDINALS \o <<"up", "down">>)
        by_chance == {"up", "down"} \ forced
    IN  /\ Cardinality(exits \ by_chance) = Max(p.target, Cardinality(forced))
        /\ p.generator = "overworld" => p.target \in 2..4
        /\ (p.generator = "overworld" /\ p.context.neighbors = <<>>
              /\ p.context.came_from = <<>>)
             => Cardinality(exits \cap cardinals) = p.target
        /\ Cardinality(exits) >= 2
        /\ Cardinality(exits) <= 6
        /\ Len(p.exits) = Cardinality(exits)

\* A road tile (base_exits 2) three neighbours had an exit to got its three
\* forced exits and no more.
C20_Witness ==
  /\ IsSome(probe)
  /\ The(probe).generator = "overworld"
  /\ The(probe).target = 2
  /\ ForcedByNeighbors(The(probe).context) = {"north", "east", "down"}
  /\ Keys(The(probe).exits) = {"north", "east", "down"}

\* C21: when the tile asked about is no center and several centers reach it
\* at the same least Manhattan distance, check_landmark returns the one the
\* scan meets first: the least dx, and among equal dx the least dy.
C21_FirstScannedWinsTies ==
  IsSome(probe) =>
    LET q == The(probe).coords
        r == The(probe).landmark
        far(c) == Abs(c[1] - q[1]) + Abs(c[2] - q[2])
        plane == {<<q[1] + dx, q[2] + dy, q[3]>> :
                    dx \in -MaxSpan..MaxSpan, dy \in -MaxSpan..MaxSpan}
        near == {c \in plane :
                   /\ _landmark_seed(c[1], c[2], c[3]) % LANDMARK_RARITY = 0
                   /\ far(c) <= The(_landmark_at(c[1], c[2], c[3])).radius}
        ties == {c \in near : \A d \in near : far(c) <= far(d)}
    IN  (q \notin near /\ Cardinality(ties) >= 2) =>
          /\ IsSome(r)
          /\ The(r).center \in ties
          /\ \A c \in ties :
                \/ The(r).center[1] < c[1]
                \/ The(r).center[1] = c[1] /\ The(r).center[2] <= c[2]

\* The tile between two centers one step west and one step east of it, both
\* reaching it, got the western one, which the layout lists second.
C21_Witness ==
  /\ IsSome(probe)
  /\ world.scenery.landmarks = <<<<<<0, 0, 0>>, 450>>, <<<<-2, 0, 0>>, 150>>>>
  /\ The(probe).coords = <<HomeXY[1] - 1, HomeXY[2], 0>>
  /\ The(The(probe).landmark).center = <<HomeXY[1] - 2, HomeXY[2], 0>>

\* ------------------------------------------------ the generators, room by room

MaxSeed == 59

\* Worlds whose home column has any of the samples below and any md5 prefix
\* up to MaxSeed (every residue of the moduli the generators use) or one of
\* SeedValues.
RoomWorlds ==
  {[home |-> "plains", seed |-> s, scenery |-> Bare, raw |-> Sample(e, m, c, w)] :
     s \in (0..MaxSeed) \cup SeedValues,
     e \in {-60, 0, 20, 40, 70}, m \in {-50, -30, 0, 30, 60},
     c \in {0, 50, 80}, w \in {0, 40, 70}}

InitRooms ==
  /\ world \in RoomWorlds
  /\ strhash \in HashFns
  /\ _GENERATORS = StartGenerators
  /\ IdleCaller
  /\ probe = NoneObj

\* Steps 1 to 3 of generate_room for a tile of the home column: the biome and
\* the blueprint the biome's generator produces.
CallGenerate ==
  \E z \in Levels :
    LET coords == <<HomeXY[1], HomeXY[2], z>>
        biome_data == get_biome(coords[1], coords[2], coords[3])
        ctx == [DefaultContext EXCEPT !.biome_data = Some(biome_data)]
    IN  /\ probe = NoneObj
        /\ probe' = Some([coords |-> coords, biome_data |-> biome_data,
                          blueprint |-> Generate(_get_generator(biome_data.generator_name),
                                                 coords, ctx)])
        /\ UNCHANGED <<world, strhash, coordinates, context, ctx_before, llm, blueprint,
                       generator, calls, pc, _GENERATORS, heap, threads>>

NextRooms == CallGenerate

SpecRooms == InitRooms /\ [][NextRooms]_vars

\* C22: the terrain list a generator produces has 1 to 3 entries on the
\* surface and 1 to 2 underground, holds no entry twice, and every entry is
\* one of the terrain catalog of the room's biome without its weirdness
\* prefix (surface) or of the cave catalog (underground), whatever the seed.
C22_TerrainSelection ==
  IsSome(probe) =>
    LET p == The(probe)
        terrain == p.blueprint.terrain
        surface == p.coords[3] >= 0
        catalog == IF surface
                   THEN DictGet(TERRAIN_CATALOG, StripPrefix(p.biome_data.biome_name), <<>>)
                   ELSE _CAVE_TERRAIN
    IN  /\ Len(terrain) >= 1
        /\ Len(terrain) <= (IF surface THEN 3 ELSE 2)
        /\ \A i, j \in 1..Len(terrain) : terrain[i] = terrain[j] => i = j
        /\ \A i \in 1..Len(terrain) : InSeq(terrain[i], catalog)

\* A forest room whose seed asks for three entries got three different ones
\* of the forest's four.
C22_Witness ==
  /\ IsSome(probe)
  /\ The(probe).biome_data.biome_name = <<"forest">>
  /\ world.seed = 5
  /\ The(probe).blueprint.terrain
       = <<"a mossy log", "a cluster of ferns", "a birch stand">>

\* C23: the scale of a room is looked up by its biome name without the
\* weirdness prefix in both generators, so that rooms of the same biome have
\* the same scale; a biome the scale table does not have gets "room".
C23_ScaleByBiome ==
  IsSome(probe) =>
    The(probe).blueprint.scale
      = DictGet(BIOME_SCALES, StripPrefix(The(probe).biome_data.biome_name), "room")

\* C24: the tags of a blueprint are the ambient tags of its biome followed by
\* "eldritch" exactly when the biome name has the eldritch_ prefix, or by
\* "ancient" exactly when it has the ancient_ prefix, and by nothing when the
\* name has no prefix.
C24_TagsFollowPrefix ==
  IsSome(probe) =>
    LET p == The(probe)
        name == p.biome_data.biome_name
        ambient == IF p.coords[3] >= 0
                   THEN DictGet(BIOME_TAGS, StripPrefix(name), <<"unknown">>)
                   ELSE <<"underground", "dark", "damp", "echoing">>
                        \o (IF name = <<"crystal_cavern">>
                            THEN <<"glowing", "mystical">> ELSE <<>>)
                        \o (IF name = <<"underground_river">>
                            THEN <<"water", "rushing">> ELSE <<>>)
    IN  p.blueprint.tags
          = ambient \o (IF StartsWith(name, "eldritch_") THEN <<"eldritch">>
                        ELSE IF StartsWith(name, "ancient_") THEN <<"ancient">>
                        ELSE <<>>)

\* C25: a surface blueprint has at most 3 distant features, at most one per
\* open cardinal exit and none for up, down or a direction that is no exit;
\* each is a template of the biome 3 tiles out in its direction when that
\* biome differs from the room's own and has templates, else of the biome 5
\* tiles out, which then differs and has templates; an underground blueprint
\* has none.
C25_DistantFeatures ==
  (pc = "done" /\ IsSome(blueprint)) =>
    LET bp == The(blueprint)
        features == bp.distant_features
        own == StripPrefix(The(context.biome_data).biome_name)
        seen(d, n) == FarName(coordinates, d, n)
        shows(name) == name # own /\ Len(name) = 1 /\ name[1] \in DOMAIN _DISTANT_TEMPLATES
        source(d) == IF shows(seen(d, 3)) THEN seen(d, 3) ELSE seen(d, 5)
    IN  IF coordinates[3] < 0 THEN features = <<>>
        ELSE /\ Len(features) <= 3
             /\ \A i, j \in 1..Len(features) : features[i][2] = features[j][2] => i = j
             /\ \A i \in 1..Len(features) :
                  LET d == features[i][2]
                  IN  /\ d \in {"north", "south", "east", "west"}
                      /\ d \in Keys(bp.exits)
                      /\ shows(source(d))
                      /\ InSeq(features[i][1], _DISTANT_TEMPLATES[source(d)[1]])

\* A plains room open on all four sides, with another biome 3 tiles out on
\* every side, tells of three of them.
C25_Witness ==
  /\ pc = "done"
  /\ IsSome(blueprint)
  /\ coordinates[3] = 0
  /\ world.scenery.view = "ringed"
  /\ world.home = "plains"
  /\ Cardinality(Keys(The(blueprint).exits)) = 4
  /\ Len(The(blueprint).distant_features) = 3

\* C26: the vertical exits of a room that its context did not force follow
\* the rule of its generator.  On the surface there is at most one, none when
\* the biome's up_down_chance is 0; it is "up" only when the tile's elevation
\* is above 0.3 and "down" only when it is not.  Underground, "down" appears
\* only below level -1, and then "up" is an exit too.
C26_VerticalExits ==
  (pc = "done" /\ IsSome(blueprint)) =>
    LET exits == Keys(The(blueprint).exits)
        z == coordinates[3]
        data == The(context.biome_data)
        forced == ForcedByNeighbors(ctx_before)
                  \cup ForcedByCameFrom(coordinates, ctx_before,
                                        IF z >= 0 THEN _CARDINALS
                                        ELSE _CARDINALS \o <<"up", "down">>)
        by_chance == ({"up", "down"} \cap exits) \ forced
        profile == DictGet(EXIT_PROFILES, StripPrefix(data.biome_name), _DEFAULT_PROFILE)
    IN  IF z >= 0
        THEN /\ Cardinality(by_chance) <= 1
             /\ profile.up_down_chance = 0 => by_chance = {}
             /\ "up" \in by_chance => data.elevation > 30
             /\ "down" \in by_chance => data.elevation <= 30
        ELSE "down" \in by_chance => (z < -1 /\ "up" \in exits)

\* A room two levels down, generated from an empty context, got both a way
\* down and a way up; a ravine on the surface got a way down.
C26_Witness ==
  /\ pc = "done"
  /\ IsSome(blueprint)
  /\ ctx_before.neighbors = <<>>
  /\ ctx_before.came_from = <<>>
  /\ coordinates[3] = -2
  /\ {"up", "down"} \subseteq Keys(The(blueprint).exits)

\* Both residues of a seed repeat with the period lcm(150, 8) = 600: the
\* seeds below it stand for all the 32-bit ones.
SeedPeriod == 600

\* C27: every entry of LANDMARK_CATALOG can be placed: for each index there
\* is a seed that is a multiple of LANDMARK_RARITY (the tile is a center) and
\* whose residue modulo the catalog's length is that index.
C27_EveryEntryPlaceable ==
  IsSome(probe) =>
    \A i \in 0..(Len(LANDMARK_CATALOG) - 1) :
      \E h \in 0..(SeedPeriod - 1) :
        /\ h % LANDMARK_RARITY = 0
        /\ h % Len(LANDMARK_CATALOG) = i

\* C28: whenever generate_room has set blueprint.landmark, the description it
\* returns contains the landmark's modifier, whether the description is the
\* template fallback or the text of an external writer that did not mention
\* the landmark.
C28_LandmarkMentioned ==
  (pc = "done" /\ IsSome(blueprint) /\ The(blueprint).landmark # NoneStr) =>
    InSeq(The(blueprint).landmark, The(blueprint).description)

\* A room at the watchtower whose description an external writer wrote
\* without a word about the tower: the modifier was added after the text.
C28_Witness ==
  /\ pc = "done"
  /\ IsSome(blueprint)
  /\ ~NoAnswer(llm)
  /\ The(blueprint).landmark = "near the ruins of an old watchtower"
  /\ The(blueprint).description
       = <<"A quiet place", ", ", "near the ruins of an old watchtower", ".">>

\* C29: for every tile below the surface the biome of the blueprint that
\* generate_room returns is an underground one, also at a landmark center.
C29_UndergroundBiome ==
  (pc = "done" /\ IsSome(blueprint) /\ coordinates[3] < 0) =>
    The(blueprint).biome \in
      {<<"shallow_cave">>, <<"underground_passage">>, <<"deep_cavern">>,
       <<"deep_underground">>, <<"underground_river">>, <<"crystal_cavern">>}

\* ------------------------------------------------------------------ land.py

\* The land table: the record of the room at each tile (NoneObj: no room
\* yet), a room's uuid being known by its tile.  A record holds data["exits"]
\* (NoneObj: the key is missing), data["generated"], data["biome"] and
\* data["description"].  The tiles are those of the home column and the ones
\* next to them.
Grid == Tiles \cup {_dest_coords(t, d) : t \in Tiles, d \in Directions}

\* Land(): the data of a new room, as Entity.__init__ and the coordinates
\* setter leave it; no exits key.
NewLand == [exits |-> NoneObj, generated |-> FALSE, biome |-> <<>>, description |-> <<>>]

\* Land.by_coordinates(coordinates): the table with a room at the tile
by_coordinates(table, coords) ==
  IF IsSome(table[coords]) THEN table ELSE [table EXCEPT ![coords] = Some(NewLand)]

\* Location.add_exit(direction, destination) on the room at a tile whose data
\* has the exits key: self.data["exits"][direction] = destination; _save()
add_exit(table, at, direction, destination) ==
  [table EXCEPT ![at] = Some([The(@) EXCEPT
      !.exits = Some(IF direction \in Keys(The(The(table[at]).exits))
                     THEN [i \in 1..Len(The(@)) |->
                             IF The(@)[i][1] = direction
                             THEN <<direction, destination>> ELSE The(@)[i]]
                     ELSE Append(The(@), <<direction, destination>>))])]

\* Land._build_generation_context(room) for a player standing in my_room; a
\* neighbour whose data has no exits key raises KeyError and is left out
_build_generation_context(table, my_room, room) ==
  LET order == SelectSeq(<<"north", "south", "east", "west", "up", "down">>,
                         LAMBDA d : /\ IsSome(table[_dest_coords(room, d)])
                                    /\ IsSome(The(table[_dest_coords(room, d)]).exits))
      info(d) ==
        LET neighbor == The(table[_dest_coords(room, d)])
        IN  [coords |-> _dest_coords(room, d),
             description |-> neighbor.description,
             biome |-> neighbor.biome,
             has_exit_to_us |-> InSeq(<<_OPPOSITE[d], room>>, The(neighbor.exits))]
  IN  [came_from |-> IF my_room # room THEN my_room ELSE <<>>,
       came_from_description |-> IF my_room # room THEN The(table[my_room]).description
                                 ELSE <<>>,
       came_from_biome |-> IF my_room # room THEN The(table[my_room]).biome ELSE <<>>,
       neighbors |-> [i \in 1..Len(order) |-> <<order[i], info(order[i])>>],
       biome_data |-> NoneObj]

\* The return exit on the neighbour: reading neighbor.exits raises KeyError
\* when its data has no exits key, which the loop catches and logs.
ReturnExit(table, room, direction, dest) ==
  IF ~IsSome(The(table[dest]).exits) THEN table
  ELSE IF _OPPOSITE[direction] \in Keys(The(The(table[dest]).exits)) THEN table
  ELSE add_exit(table, dest, _OPPOSITE[direction], room)

RECURSIVE ApplyExits(_, _, _, _)
\* for direction, dest_coords in blueprint.exits.items(): ... from the i-th on
ApplyExits(table, room, exits, i) ==
  IF i > Len(exits) THEN table
  ELSE IF exits[i][1] \in Keys(The(The(table[room]).exits))
  THEN ApplyExits(table, room, exits, i + 1)
  ELSE ApplyExits(ReturnExit(add_exit(by_coordinates(table, exits[i][2]), room,
                                      exits[i][1], exits[i][2]),
                             room, exits[i][1], exits[i][2]),
                  room, exits, i + 1)

\* The rest of Land._generate_room once the blueprint is there; reading
\* room.exits raises KeyError out of the call when the key is missing.  The
\* terrain entities go to other tables.
Materialize(table, room, bp) ==
  IF ~IsSome(The(table[room]).exits) THEN table
  ELSE LET stored == ApplyExits(table, room, bp.exits, 1)
       IN  [stored EXCEPT ![room] = Some([The(@) EXCEPT !.generated = TRUE,
                                                         !.biome = bp.biome,
                                                         !.description = bp.description])]

\* Land._generate_room(room), the player standing in my_room and the writers
\* giving no answer
_generate_room(table, my_room, room) ==
  IF The(table[room]).generated THEN table
  ELSE Materialize(table, room,
                   generate_room(room, _build_generation_context(table, my_room, room),
                                 NoEnv).blueprint)

\* The tables a behaviour starts from: the room at the home tile and maybe
\* the rooms above it and north of it, without exits; each either with an
\* empty exits dict (Location.create) or without the key (by_coordinates).
StartRooms == {Some(NewLand), Some([NewLand EXCEPT !.exits = Some(<<>>)])}
StartTables ==
  {[c \in Grid |->
      IF c = <<HomeXY[1], HomeXY[2], 0>> THEN home
      ELSE IF c = <<HomeXY[1], HomeXY[2], 1>> THEN above
      ELSE IF c = <<HomeXY[1], HomeXY[2] + 1, 0>> THEN north
      ELSE NoneObj] :
     home \in StartRooms, above \in StartRooms \cup {NoneObj},
     north \in StartRooms \cup {NoneObj}}

InitLand ==
  /\ world \in {w \in Worlds : w.scenery = Bare}
  /\ strhash \in HashFns
  /\ _GENERATORS = StartGenerators
  /\ IdleCaller
  /\ probe \in StartTables

\* A player standing in a room of the home column looks around, or has just
\* been moved into a room of the column: _generate_room for that room.
CallLandGenerateRoom ==
  \E my_room \in Tiles, room \in Tiles :
    /\ IsSome(probe[my_room])
    /\ IsSome(probe[room])
    /\ probe' = _generate_room(probe, my_room, room)
    /\ UNCHANGED <<world, strhash, coordinates, context, ctx_before, llm, blueprint,
                   generator, calls, pc, _GENERATORS, heap, threads>>

NextLand == CallLandGenerateRoom

SpecLand == InitLand /\ [][NextLand]_vars

\* C30: after any sequence of Land._generate_room calls on a world whose
\* exits all come from generation, a stored exit from room A in direction d
\* to room B has its return: B has an exit in the opposite direction to A;
\* and a stored exit is never overwritten or removed by generation.
C30_GraphSymmetry ==
  /\ [](\A a \in Grid :
          (IsSome(probe[a]) /\ IsSome(The(probe[a]).exits)) =>
            \A i \in 1..Len(The(The(probe[a]).exits)) :
              LET d == The(The(probe[a]).exits)[i][1]
                  b == The(The(probe[a]).exits)[i][2]
              IN  /\ IsSome(probe[b])
                  /\ IsSome(The(probe[b]).exits)
                  /\ InSeq(<<_OPPOSITE[d], a>>, The(The(probe[b]).exits)))
  /\ [][\A a \in Grid :
          (IsSome(probe[a]) /\ IsSome(The(probe[a]).exits)) =>
            /\ IsSome(probe'[a])
            /\ IsSome(The(probe'[a]).exits)
            /\ Range(The(The(probe[a]).exits)) \subseteq Range(The(The(probe'[a]).exits))]_vars

====
